---- MODULE Spec2Model ----
(***************************************************************************)
(* A model of ftdi-tools: the MPSSE command builder, the pin registry of   *)
(* the MPSSE controller, the GPIO / SPI / I2C / SWD / JTAG handles that    *)
(* share one controller behind a mutex, and the I2C and SPI transactions.  *)
(*                                                                         *)
(* The sources are of mixed revisions: i2c.rs, swd.rs, spi.rs and the jtag *)
(* files call the builder by its older method names (clock_bytes_in,       *)
(* clock_bits_out, as_slice, ...), while mpsse_cmd.rs defines the same     *)
(* methods as shift_bytes_in, shift_bits_out, destruct, ...  The model     *)
(* uses the names of mpsse_cmd.rs for the builder and the names of         *)
(* mpsse.rs for the controller.                                            *)
(***************************************************************************)
EXTENDS Integers, Sequences, FiniteSets, Bags, TLC

(***************************************************************************)
(* Bounds of the model.                                                    *)
(***************************************************************************)
\* number of builder calls in one command stream
MaxCalls == 2
\* a byte shift is given lengths up to MaxChunks * MAX_BYTES_SHIFT + 1
MaxChunks == 2
\* number of opcode constructions in one run of the constructors
MaxShiftCmds == 2
\* longest response buffer handed to write_read, and longest payload of a
\* bulk-in packet
MaxRead == 2
\* number of bulk-in packets the device has ready for one exchange
MaxPackets == 3
\* the exchanges of the IDCODE loop of FtdiJtag::scan_with followed
MaxScanRounds == 4
\* longest payload handed to a byte shift (besides the lengths around
\* MAX_BYTES_SHIFT that shift_bytes_in is also given)
MaxLen == 1
\* number of handles alive at once on one controller
MaxHandles == 2
\* number of threads that use handles of one controller
MaxThreads == 2
\* the operations of one I2C transaction
MaxOps == 2

(***************************************************************************)
(* Program constants.                                                      *)
(***************************************************************************)
MAX_BYTES_SHIFT == 65536

\* the panic of the assert! of MpsseShiftCmd::shift, which returns no byte
AssertFailed == -1

\* ftdaye.rs: the first status byte of a bulk-in packet that reports a bad
\* MPSSE command (the literal 0xFA of write_read), and the number of status
\* bytes write_read splits off a packet (the literal 2)
BAD_COMMAND == 250
STATUS_BYTES == 2
MAX_BITS_SHIFT == 8
MAX_TMS_SHIFT == 7
\* enum MpsseCmd
SetDataBitsLowbyte == 128
GetDataBitsLowbyte == 129
SetDataBitsHighbyte == 130
GetDataBitsHighbyte == 131
EnableLoopback == 132
DisableLoopback == 133
SetClockFrequency == 134
SendImmediate == 135
DisableClockDivideBy5 == 138
EnableClockDivideBy5 == 139
Enable3PhaseClocking == 140
Disable3PhaseClocking == 141
EnableAdaptiveClocking == 150
DisableAdaptiveClocking == 151

\* spi.rs: the lower-bank bits of the SPI signals
SCK_MASK == 1
MOSI_MASK == 2
CS_MASK == 8
\* i2c.rs, mod cmd: the lower-bank bits of the I2C lines and the phase widths
SCL == 1
SDA == 2
DATA_BITS == 8
ACK_BITS == 1
\* FtdiI2c::SLAVE_ACK_MASK; SLAVE_NOT_ACK is the same value
SLAVE_ACK_MASK == 1
\* swd.rs
SWCLK == 1
SWDIO == 2
REPONSE_SUCCESS == 1
REPONSE_WAIT == 2
REPONSE_FAILED == 4
RESPONSE_BITS == 3
DATA_BYTES == 4
PARITY_BITS == 1

\* jtag_detect.rs
ID_LEN == 32
\* jtag/hw_jtag.rs: the lower-bank bits of the JTAG outputs
TCK_MASK == 1
TDI_MASK == 2
TMS_MASK == 8

(***************************************************************************)
(* u8 arithmetic.                                                          *)
(***************************************************************************)
Pow2(i) == 2 ^ i

\* bit i of the byte v
Bit(v, i) == (v \div Pow2(i)) % 2

\* a & b and a | b on four bits, tabulated
And4 ==
  [a \in 0..15 |-> [b \in 0..15 |->
     LET f(i) == Bit(a, i) * Bit(b, i) * Pow2(i) IN f(0) + f(1) + f(2) + f(3)]]

Or4 ==
  [a \in 0..15 |-> [b \in 0..15 |->
     LET f(i) == IF Bit(a, i) + Bit(b, i) > 0 THEN Pow2(i) ELSE 0
     IN f(0) + f(1) + f(2) + f(3)]]

\* a & b on u8
And8(a, b) == 16 * And4[a \div 16][b \div 16] + And4[a % 16][b % 16]

\* a | b on u8
Or8(a, b) == 16 * Or4[a \div 16][b \div 16] + Or4[a % 16][b % 16]

\* !a on u8
Not8(a) == 255 - a

\* bool -> the bit it sets at position i
B2N(b, i) == IF b THEN Pow2(i) ELSE 0

(***************************************************************************)
(* MpsseShiftCmd: the opcode byte of a data shift.  The bitfield is laid   *)
(* out LSB first: is_tdi_neg_write, is_bit_mode, is_tdo_neg_read, is_lsb,  *)
(* is_tdi_write, is_tdo_read, is_tms_write, _const_0.                      *)
(***************************************************************************)
MpsseShiftCmd(is_tdi_neg_write, is_bit_mode, is_tdo_neg_read, is_lsb, is_tdi_write, is_tdo_read, is_tms_write) ==
  B2N(is_tdi_neg_write, 0) + B2N(is_bit_mode, 1) + B2N(is_tdo_neg_read, 2)
  + B2N(is_lsb, 3) + B2N(is_tdi_write, 4) + B2N(is_tdo_read, 5)
  + B2N(is_tms_write, 6)

\* shift with both edge flags following tck_init_value alone
shift_edges_unmasked(tck_init_value, is_bit_mode, is_lsb, is_tdi_write, is_tdo_read) ==
  IF ~(is_tdi_write \/ is_tdo_read) THEN AssertFailed
  ELSE MpsseShiftCmd(~tck_init_value, is_bit_mode, tck_init_value, is_lsb,
                     is_tdi_write, is_tdo_read, FALSE)

\* MpsseShiftCmd::shift: AssertFailed is the panic of
\* assert!(is_tdi_write | is_tdo_read), in which no byte is returned; every
\* caller in the builder passes at least one of the two TRUE
shift(tck_init_value, is_bit_mode, is_lsb, is_tdi_write, is_tdo_read) ==
  IF ~(is_tdi_write \/ is_tdo_read) THEN AssertFailed
  ELSE MpsseShiftCmd((~tck_init_value) /\ is_tdi_write, is_bit_mode,
                     tck_init_value /\ is_tdo_read, is_lsb, is_tdi_write,
                     is_tdo_read, FALSE)

\* _tms_shift with is_lsb left FALSE
tms_shift_msb(tck_init_value, tdo_neg_read, tdo_read) ==
  MpsseShiftCmd(~tck_init_value, TRUE, tdo_neg_read /\ tdo_read, FALSE, FALSE,
                tdo_read, TRUE)

\* MpsseShiftCmd::_tms_shift: is_bit_mode and is_lsb keep their default TRUE
tms_shift_(tck_init_value, tdo_neg_read, tdo_read) ==
  MpsseShiftCmd(~tck_init_value, TRUE, tdo_neg_read /\ tdo_read, TRUE, FALSE,
                tdo_read, TRUE)

\* MpsseShiftCmd::tms_shift
tms_shift(tdo_read) == tms_shift_(FALSE, FALSE, tdo_read)

(***************************************************************************)
(* MpsseCmdBuilder.  A builder is the record [cmd, read_len]; each method  *)
(* is an operator from a builder to the builder after the call.            *)
(***************************************************************************)
\* MpsseCmdBuilder::new
NewBuilder == [cmd |-> <<>>, read_len |-> 0]

\* cmd.push / cmd.extend_from_slice
Push(b, bytes) == [b EXCEPT !.cmd = b.cmd \o bytes]

\* the two length bytes of a byte shift: (len & 0xFF), ((len >> 8) & 0xFF)
LenLo(len) == len % 256
LenHi(len) == (len \div 256) % 256

set_clock(b, divisor, clk_div_by5) ==
  LET b1 == CASE clk_div_by5 = "SomeTrue" -> Push(b, <<EnableClockDivideBy5>>)
              [] clk_div_by5 = "SomeFalse" -> Push(b, <<DisableClockDivideBy5>>)
              [] OTHER -> b
  IN Push(b1, <<SetClockFrequency, divisor % 256, (divisor \div 256) % 256>>)

enable_loopback(b, state) ==
  IF state THEN Push(b, <<EnableLoopback>>) ELSE Push(b, <<DisableLoopback>>)

enable_3phase_data_clocking(b, state) ==
  IF state THEN Push(b, <<Enable3PhaseClocking>>)
  ELSE Push(b, <<Disable3PhaseClocking>>)

enable_adaptive_clocking(b, state) ==
  IF state THEN Push(b, <<EnableAdaptiveClocking>>)
  ELSE Push(b, <<DisableAdaptiveClocking>>)

set_gpio_lower(b, state, direction) ==
  Push(b, <<SetDataBitsLowbyte, state, direction>>)

set_gpio_upper(b, state, direction) ==
  Push(b, <<SetDataBitsHighbyte, state, direction>>)

gpio_lower(b) ==
  Push([b EXCEPT !.read_len = b.read_len + 1], <<GetDataBitsLowbyte>>)

gpio_upper(b) ==
  Push([b EXCEPT !.read_len = b.read_len + 1], <<GetDataBitsHighbyte>>)

send_immediate(b) == Push(b, <<SendImmediate>>)

\* chunks that cuts one element short of n
RECURSIVE chunks_short(_, _)
chunks_short(data, n) ==
  IF Len(data) = 0 THEN <<>>
  ELSE IF Len(data) < n THEN <<data>>
  ELSE <<SubSeq(data, 1, n - 1)>> \o chunks_short(SubSeq(data, n, Len(data)), n)

\* slice::chunks(n): the consecutive sub-slices of at most n elements
RECURSIVE chunks(_, _)
chunks(data, n) ==
  IF Len(data) = 0 THEN <<>>
  ELSE IF Len(data) <= n THEN <<data>>
  ELSE <<SubSeq(data, 1, n)>> \o chunks(SubSeq(data, n + 1, Len(data)), n)

shift_bytes_out_limited(b, tck_init_value, is_lsb, data) ==
  IF Len(data) = 0 THEN b
  ELSE Push(Push(b, <<shift(tck_init_value, FALSE, is_lsb, TRUE, FALSE),
                      LenLo(Len(data) - 1), LenHi(Len(data) - 1)>>), data)

RECURSIVE ForChunksOut(_, _, _, _)
ForChunksOut(b, tck_init_value, is_lsb, cs) ==
  IF cs = <<>> THEN b
  ELSE ForChunksOut(shift_bytes_out_limited(b, tck_init_value, is_lsb, Head(cs)),
                    tck_init_value, is_lsb, Tail(cs))

shift_bytes_out(b, tck_init_value, is_lsb, data) ==
  ForChunksOut(b, tck_init_value, is_lsb, chunks(data, MAX_BYTES_SHIFT))

\* shift_bytes_in_limited without its `self.read_len += len`
shift_bytes_in_limited_uncounted(b, tck_init_value, is_lsb, len) ==
  IF len = 0 THEN b
  ELSE Push(b, <<shift(tck_init_value, FALSE, is_lsb, FALSE, TRUE),
                 LenLo(len - 1), LenHi(len - 1)>>)

shift_bytes_in_limited(b, tck_init_value, is_lsb, len) ==
  IF len = 0 THEN b
  ELSE Push([b EXCEPT !.read_len = b.read_len + len],
            <<shift(tck_init_value, FALSE, is_lsb, FALSE, TRUE),
              LenLo(len - 1), LenHi(len - 1)>>)

RECURSIVE shift_bytes_in(_, _, _, _)
shift_bytes_in(b, tck_init_value, is_lsb, len) ==
  IF len >= MAX_BYTES_SHIFT
  THEN shift_bytes_in(
         shift_bytes_in_limited(b, tck_init_value, is_lsb, MAX_BYTES_SHIFT),
         tck_init_value, is_lsb, len - MAX_BYTES_SHIFT)
  ELSE shift_bytes_in_limited(b, tck_init_value, is_lsb, len)

shift_bytes_limited(b, tck_init_value, is_lsb, data) ==
  IF Len(data) = 0 THEN b
  ELSE Push(Push([b EXCEPT !.read_len = b.read_len + Len(data)],
                 <<shift(tck_init_value, FALSE, is_lsb, TRUE, TRUE),
                   LenLo(Len(data) - 1), LenHi(Len(data) - 1)>>), data)

RECURSIVE ForChunks(_, _, _, _)
ForChunks(b, tck_init_value, is_lsb, cs) ==
  IF cs = <<>> THEN b
  ELSE ForChunks(shift_bytes_limited(b, tck_init_value, is_lsb, Head(cs)),
                 tck_init_value, is_lsb, Tail(cs))

shift_bytes(b, tck_init_value, is_lsb, data) ==
  ForChunks(b, tck_init_value, is_lsb, chunks(data, MAX_BYTES_SHIFT))

shift_bits_out(b, tck_init_value, is_lsb, data, len) ==
  IF len = 0 THEN b
  ELSE Push(b, <<shift(tck_init_value, TRUE, is_lsb, TRUE, FALSE), len - 1, data>>)

shift_bits_in(b, tck_init_value, is_lsb, len) ==
  IF len = 0 THEN b
  ELSE Push([b EXCEPT !.read_len = b.read_len + 1],
            <<shift(tck_init_value, TRUE, is_lsb, FALSE, TRUE), len - 1>>)

shift_bits(b, tck_init_value, is_lsb, data, len) ==
  IF len = 0 THEN b
  ELSE Push([b EXCEPT !.read_len = b.read_len + 1],
            <<shift(tck_init_value, TRUE, is_lsb, TRUE, TRUE), len - 1, data>>)

clock_tms_out(b, tdi, data, len) ==
  IF len = 0 THEN b
  ELSE Push(b, <<tms_shift(FALSE), len - 1, IF tdi THEN Or8(data, 128) ELSE data>>)

clock_tms(b, tdi, data, len) ==
  IF len = 0 THEN b
  ELSE Push([b EXCEPT !.read_len = b.read_len + 1],
            <<tms_shift(TRUE), len - 1, IF tdi THEN Or8(data, 128) ELSE data>>)

\* vec![fill; len], kept as the pair it is built from (a response of 65537
\* bytes is not spelled out byte by byte)
VecRepeat(fill, len) == [fill |-> fill, len |-> len]

\* MpsseCmdBuilder::destruct: the command with send_immediate appended, and
\* the zeroed response buffer vec![0; read_len]
destruct(b) ==
  [cmd |-> send_immediate(b).cmd, response |-> VecRepeat(0, b.read_len)]

(***************************************************************************)
(* ChipType, Pin and the controller FtdiMpsse.  A pin is <<bank, idx>> with *)
(* bank "lower" or "upper".  A controller is the record                    *)
(* [chip_type, interface, lower, upper, ft]: lower and upper are the       *)
(* GpioByte records [direction, value, pins], and ft is the device end of  *)
(* the FtdiContext: ft.sent, the command streams written to the device by  *)
(* the operation in progress, one entry per exchange, and ft.lower and     *)
(* ft.upper, the <<value, direction>> the device's banks were last set to. *)
(* Every exchange is taken to succeed.                                     *)
(***************************************************************************)
interface_list(chip_type) ==
  CASE chip_type = "FT232H" -> {"A"}
    [] chip_type = "FT2232H" -> {"A", "B"}
    [] chip_type = "FT4232H" -> {"A", "B", "C", "D"}

mpsse_list(chip_type) ==
  CASE chip_type = "FT232H" -> {"A"}
    [] chip_type \in {"FT2232H", "FT4232H"} -> {"A", "B"}

upper_pins(chip_type) ==
  CASE chip_type \in {"FT232H", "FT2232H"} -> 8
    [] chip_type = "FT4232H" -> 0

\* Pin::mask
\* enum Pin
Lower(idx) == <<"lower", idx>>

Upper(idx) == <<"upper", idx>>

mask(pin) == Pow2(pin[2])

\* FtdiMpsse::open: both banks Default::default()
open(chip_type, interface) ==
  [chip_type |-> chip_type, interface |-> interface,
   lower |-> [direction |-> 0, value |-> 0, pins |-> [i \in 0..7 |-> "None"]],
   upper |-> [direction |-> 0, value |-> 0, pins |-> [i \in 0..7 |-> "None"]],
   ft |-> [sent |-> <<>>, lower |-> <<0, 0>>, upper |-> <<0, 0>>]]

\* The opcodes of a command stream as the device takes them, each with its
\* argument bytes: set-bank has two, set-clock two, a TMS shift and a bit
\* shift that writes two (length, data), a bit shift that only reads one, a
\* byte shift two length bytes and, when it writes, length + 1 data bytes.
\* the length of the opcode at bytes[i] with its argument bytes
OpLen(bytes, i) ==
  LET op == bytes[i]
  IN IF op \in {SetDataBitsLowbyte, SetDataBitsHighbyte, SetClockFrequency} THEN 3
     ELSE IF op >= 128 THEN 1
     ELSE IF Bit(op, 6) = 1 THEN 3
     ELSE IF Bit(op, 1) = 1 THEN (IF Bit(op, 4) = 1 THEN 3 ELSE 2)
     ELSE IF Bit(op, 4) = 1 THEN 3 + bytes[i + 1] + 256 * bytes[i + 2] + 1
     ELSE 3

\* up to n opcodes from bytes[i] on, and the index of what follows them
RECURSIVE DecodeSome(_, _, _)
DecodeSome(bytes, i, n) ==
  IF n = 0 \/ i > Len(bytes) THEN [ops |-> <<>>, next |-> i]
  ELSE LET rest == DecodeSome(bytes, i + OpLen(bytes, i), n - 1)
       IN [ops |-> <<SubSeq(bytes, i, i + OpLen(bytes, i) - 1)>> \o rest.ops,
           next |-> rest.next]

\* sixteen opcodes at a time, which keeps the evaluation shallow
RECURSIVE DecodeFrom(_, _)
DecodeFrom(bytes, i) ==
  IF i > Len(bytes) THEN <<>>
  ELSE LET some == DecodeSome(bytes, i, 16)
       IN some.ops \o DecodeFrom(bytes, some.next)

Decode(bytes) == DecodeFrom(bytes, 1)

\* the device's banks after it has taken the opcodes ops
Banks(ft, ops) ==
  LET last(code) == SelectSeq(ops, LAMBDA op : op[1] = code)
      low == last(SetDataBitsLowbyte)
      high == last(SetDataBitsHighbyte)
  IN [ft EXCEPT !.lower = IF low = <<>> THEN @
                          ELSE <<low[Len(low)][2], low[Len(low)][3]>>,
                !.upper = IF high = <<>> THEN @
                          ELSE <<high[Len(high)][2], high[Len(high)][3]>>]

\* FtdiMpsse::exec (and the write_read of the older callers): one exchange
exec(m, b) ==
  [m EXCEPT !.ft = [Banks(@, Decode(destruct(b).cmd)) EXCEPT
                      !.sent = Append(@, destruct(b).cmd)]]

\* the set-bank exchange of the bank's stored value and direction
set_bank(m, bank) ==
  exec(m, IF bank = "lower"
          THEN set_gpio_lower(NewBuilder, m.lower.value, m.lower.direction)
          ELSE set_gpio_upper(NewBuilder, m.upper.value, m.upper.direction))

\* ChipType::max_frequecny, which is not among the sources: <<max_frequency,
\* clk_div_by5>>.  mpsse.rs documents 6 MHz for the FT2232D and 30 MHz for
\* the FTx232H chips, and FtdiMpsse::open sets the clock with None on the
\* FT2232D and with Some(false) on the others.
max_frequecny(chip_type) ==
  IF chip_type = "FT2232D" THEN <<6000000, "None">> ELSE <<30000000, "SomeFalse">>

\* the divisor of set_frequency with the remainder of the division dropped
frequency_divisor_floor(m, frequency_hz) ==
  LET max_frequency == max_frequecny(m.chip_type)[1]
      min_frequency == max_frequency \div 65536 + 1
  IN IF frequency_hz > max_frequency THEN 1
     ELSE IF frequency_hz < min_frequency THEN 65536
     ELSE max_frequency \div frequency_hz

\* FtdiMpsse::set_frequency: `let divisor = ..`
frequency_divisor(m, frequency_hz) ==
  LET max_frequency == max_frequecny(m.chip_type)[1]
      min_frequency == max_frequency \div 65536 + 1
  IN IF frequency_hz > max_frequency THEN 1
     ELSE IF frequency_hz < min_frequency THEN 65536
     ELSE IF max_frequency % frequency_hz # 0
          THEN max_frequency \div frequency_hz + 1
          ELSE max_frequency \div frequency_hz

\* FtdiMpsse::set_frequency: the controller after the exchange;
\* `(divisor - 1) as u16` keeps the low 16 bits
set_frequency(m, frequency_hz) ==
  exec(m, set_clock(NewBuilder, (frequency_divisor(m, frequency_hz) - 1) % 65536,
                    max_frequecny(m.chip_type)[2]))

\* FtdiMpsse::set_frequency: the frequency it returns in Ok
set_frequency_returned(m, frequency_hz) ==
  max_frequecny(m.chip_type)[1] \div frequency_divisor(m, frequency_hz)

\* FtdiMpsse::alloc_pin with usage overwritten when the pin is in use
alloc_pin_overwrite(m, pin, usage) ==
  IF m.interface \notin mpsse_list(m.chip_type) /\ (usage # "Input" \/ usage # "Output")
  THEN [m |-> m, res |-> <<"IncorrectUsage", usage>>]
  ELSE IF \/ pin[1] = "lower" /\ pin[2] >= 8
          \/ pin[1] = "upper" /\ pin[2] >= upper_pins(m.chip_type)
  THEN [m |-> m, res |-> <<"PinNotVaild", pin>>]
  ELSE [m |-> [m EXCEPT ![pin[1]].pins[pin[2]] = usage], res |-> <<"Ok">>]

\* FtdiMpsse::alloc_pin: the controller after the call and the call's result
alloc_pin(m, pin, usage) ==
  IF m.interface \notin mpsse_list(m.chip_type) /\ (usage # "Input" \/ usage # "Output")
  THEN [m |-> m, res |-> <<"IncorrectUsage", usage>>]
  ELSE IF \/ pin[1] = "lower" /\ pin[2] >= 8
          \/ pin[1] = "upper" /\ pin[2] >= upper_pins(m.chip_type)
  THEN [m |-> m, res |-> <<"PinNotVaild", pin>>]
  ELSE IF m[pin[1]].pins[pin[2]] # "None"
  THEN [m |-> m, res |-> <<"PinInUsed", pin, usage, m[pin[1]].pins[pin[2]]>>]
  ELSE [m |-> [m EXCEPT ![pin[1]].pins[pin[2]] = usage], res |-> <<"Ok">>]

\* FtdiMpsse::free_pin.  Its assert!(idx < 8) holds for every caller below.
free_pin(m, pin) ==
  set_bank([m EXCEPT ![pin[1]].pins[pin[2]] = "None",
                     ![pin[1]].value = And8(@, Not8(mask(pin))),
                     ![pin[1]].direction = And8(@, Not8(mask(pin)))], pin[1])

\* free_pin for each pin of a sequence, in order
RECURSIVE free_pins(_, _)
free_pins(m, pins) ==
  IF pins = <<>> THEN m ELSE free_pins(free_pin(m, Head(pins)), Tail(pins))

\* `lock.alloc_pin(..)` for each pin of a sequence with the Result dropped, as
\* FtdiI2c::new, FtdiSwd::new and FtdiJtag::new call it.  owned: the pins
\* whose allocation succeeded.
RECURSIVE alloc_pins_unchecked(_, _, _)
alloc_pins_unchecked(m, pins, usage) ==
  IF pins = <<>> THEN [m |-> m, owned |-> {}]
  ELSE LET a == alloc_pin(m, Head(pins), usage)
           r == alloc_pins_unchecked(a.m, Tail(pins), usage)
       IN [m |-> r.m,
           owned |-> r.owned \cup (IF a.res[1] = "Ok" THEN {Head(pins)} ELSE {})]

\* UsedPin::new(..)? for each pin of a sequence, as the GPIO and SPI
\* constructors call it: the first failure returns its error, and the UsedPins
\* built before it (got, latest first) are dropped, each freeing its pin.
RECURSIVE UsedPins(_, _, _, _)
UsedPins(m, pins, usage, got) ==
  IF pins = <<>> THEN [m |-> m, res |-> <<"Ok">>]
  ELSE LET a == alloc_pin(m, Head(pins), usage)
       IN IF a.res[1] = "Ok"
          THEN UsedPins(a.m, Tail(pins), usage, <<Head(pins)>> \o got)
          ELSE [m |-> free_pins(a.m, got), res |-> a.res]

\* FtdiI2c::new: the results of alloc_pin are ignored, 3-phase clocking is
\* switched on and the clock set for 100 kHz
I2cPins == <<Lower(0), Lower(1), Lower(2)>>

FtdiI2c_new(m) ==
  LET a == alloc_pins_unchecked(m, I2cPins, "I2c")
      m1 == exec(a.m, enable_3phase_data_clocking(NewBuilder, TRUE))
  IN [m |-> set_frequency(m1, (100000 * 3) \div 2), owned |-> a.owned]

\* FtdiI2c::set_direction_pin and FtdiSwd::set_direction_pin: the former
\* direction pin, if any, is freed, the new one allocated (the result is
\* ignored) and made an output in the registry
set_direction_pin(m, direction_pin, pin, usage) ==
  LET m0 == IF direction_pin # <<>> THEN free_pin(m, direction_pin[1]) ELSE m
      a == alloc_pin(m0, pin, usage)
  IN [m |-> [a.m EXCEPT ![pin[1]].direction = Or8(@, mask(pin))], res |-> a.res]

(***************************************************************************)
(* I2cCmdBuilder (i2c.rs, mod cmd): an MpsseCmdBuilder together with the   *)
(* locked controller and the handle's direction_pin (<<>> for None, <<pin>> *)
(* for Some(pin)).  TCK_INIT_VALUE and IS_LSB are both false.  The methods *)
(* clock_bits_out and clock_bits_in of the source are shift_bits_out and   *)
(* shift_bits_in of mpsse_cmd.rs.                                          *)
(***************************************************************************)
I2cCmdBuilder(lock, direction_pin) ==
  [cmd |-> <<>>, read_len |-> 0, lock |-> lock, direction_pin |-> direction_pin]

i2c_out(b, scl, sda) ==
  LET lower_value == b.lock.lower.value
      lower_direction == b.lock.lower.direction
      upper_value == b.lock.upper.value
      upper_direction == b.lock.upper.direction
      lines == (IF scl THEN SCL ELSE 0) + (IF sda THEN SDA ELSE 0)
  IN IF b.direction_pin = <<>>
     THEN set_gpio_lower(b, Or8(lower_value, lines), Or8(lower_direction, SCL + SDA))
     ELSE IF b.direction_pin[1][1] = "lower"
     THEN set_gpio_lower(b, Or8(Or8(lower_value, mask(b.direction_pin[1])), lines),
                         Or8(lower_direction, SCL + SDA))
     ELSE set_gpio_upper(
            set_gpio_lower(b, Or8(lower_value, lines), Or8(lower_direction, SCL + SDA)),
            Or8(upper_value, mask(b.direction_pin[1])), upper_direction)

i2c_in(b) ==
  LET b1 == IF b.direction_pin # <<>> /\ b.direction_pin[1][1] = "upper"
            THEN set_gpio_upper(b, b.lock.upper.value, b.lock.upper.direction)
            ELSE b
  IN set_gpio_lower(b1, b.lock.lower.value, Or8(b.lock.lower.direction, SCL))

\* for _ in 0..count { self.i2c_out(scl, sda); }
RECURSIVE i2c_out_times(_, _, _, _)
i2c_out_times(b, count, scl, sda) ==
  IF count = 0 THEN b ELSE i2c_out_times(i2c_out(b, scl, sda), count - 1, scl, sda)

start(b, count) ==
  i2c_out_times(i2c_out_times(i2c_out_times(b, count, TRUE, TRUE), count, TRUE, FALSE),
                count, FALSE, FALSE)

restart(b, count) == start(i2c_out_times(b, count, FALSE, TRUE), count)

\* end that leaves SDA low: SCL is raised but SDA never released
end_sda_low(b, count) ==
  i2c_out_times(i2c_out_times(b, count, FALSE, FALSE), count, TRUE, FALSE)

end(b, count) ==
  i2c_out_times(i2c_out_times(i2c_out_times(b, count, FALSE, FALSE), count, TRUE, FALSE),
                count, TRUE, TRUE)

\* i2c_addr with the read bit left out of the address byte
i2c_addr_no_rw(b, addr, is_read) ==
  shift_bits_in(i2c_in(shift_bits_out(b, FALSE, FALSE, (addr * 2) % 256, DATA_BITS)),
                FALSE, FALSE, ACK_BITS)

i2c_addr(b, addr, is_read) ==
  LET byte == IF is_read THEN Or8((addr * 2) % 256, 1) ELSE (addr * 2) % 256
  IN shift_bits_in(i2c_in(shift_bits_out(b, FALSE, FALSE, byte, DATA_BITS)),
                   FALSE, FALSE, ACK_BITS)

i2c_read(b, m_ack) ==
  shift_bits_out(i2c_out(shift_bits_in(i2c_in(b), FALSE, FALSE, DATA_BITS), FALSE, FALSE),
                 FALSE, FALSE, IF m_ack THEN 0 ELSE 255, ACK_BITS)

i2c_write(b, value) ==
  shift_bits_in(i2c_in(shift_bits_out(i2c_out(b, FALSE, FALSE), FALSE, FALSE, value,
                                      DATA_BITS)),
                FALSE, FALSE, ACK_BITS)

(***************************************************************************)
(* FtdiI2c::transaction and FtdiI2c::transaction_fast (i2c.rs).  self is   *)
(* the handle [start_stop_cmds, direction_pin, enable_fast], lock the      *)
(* controller behind the MutexGuard, call the arguments with the           *)
(* environment of the call: [address, operations, nacks, fail].  An        *)
(* operation is [kind, buf] with kind "Read" or "Write".  The slave is a   *)
(* script over the address and data phases in the order they are clocked:  *)
(* at phase k it puts 16 * k on the response byte, plus one when k is in   *)
(* nacks, so its answer to an address or written byte carries the NACK in  *)
(* bit 0 and a byte it is read for differs from phase to phase.  fail is   *)
(* the number of the exchange the transport refuses (0: none); a refused   *)
(* exchange puts nothing on the wire.                                      *)
(* A run is [wire, phase, res, ops, resp, response_idx, walk]: the         *)
(* exchanges made, the phases clocked, "Running" or what the call returns, *)
(* the operations with their buffers, the last response, and for the fast  *)
(* parser its response_idx and the kinds of the slots it walked over.      *)
(***************************************************************************)
SLAVE_NOT_ACK == SLAVE_ACK_MASK

SlaveByte(call, k) == (16 * k + (IF k \in call.nacks THEN 1 ELSE 0)) % 256

Begin(call) ==
  [wire |-> <<>>, phase |-> 0, res |-> "Running", ops |-> call.operations,
   resp |-> <<>>, response_idx |-> 0, walk |-> <<>>]

\* lock.write_read(cmd.as_slice(), &mut response)?
write_read(st, call, b) ==
  IF st.res # "Running" THEN st
  ELSE IF Len(st.wire) + 1 = call.fail THEN [st EXCEPT !.res = "Transport"]
  ELSE LET response == [i \in 1..b.read_len |-> SlaveByte(call, st.phase + i)]
       IN [st EXCEPT !.wire = Append(@, [cmd |-> destruct(b).cmd,
                                          response |-> response]),
                     !.phase = @ + b.read_len,
                     !.resp = response]

\* return Err(..) or Ok(()): a run that is still going returns res
returned(st, res) == IF st.res = "Running" THEN [st EXCEPT !.res = res] ELSE st

\* the test of the one-byte response both kinds of phase end with: on a NACK
\* that is not accepted, the end sequence is exchanged and NoAck(source)
\* returned
check_ack(self, lock, call, st, accepted, source) ==
  IF /\ st.res = "Running"
     /\ And8(st.resp[1], SLAVE_ACK_MASK) = SLAVE_NOT_ACK
     /\ ~accepted
  THEN returned(write_read(st, call, end(I2cCmdBuilder(lock, self.direction_pin),
                                         self.start_stop_cmds)),
                source)
  ELSE st

\* the address phase both match arms of transaction open with; op_idx counts
\* from 1 here
address_phase(self, lock, call, st, op_idx, is_read) ==
  LET new == I2cCmdBuilder(lock, self.direction_pin)
  IN check_ack(self, lock, call,
               write_read(st, call,
                          i2c_addr(IF op_idx # 1 THEN restart(new, self.start_stop_cmds)
                                   ELSE new,
                                   call.address, is_read)),
               FALSE, "NoAckAddress")

\* for idx in 0..len { i2c_read(idx != len - 1) }
RECURSIVE i2c_reads(_, _, _)
i2c_reads(b, idx, len) ==
  IF idx >= len THEN b ELSE i2c_reads(i2c_read(b, idx # len - 1), idx + 1, len)

\* the response of the exchange st ends with is the buffer of the operation
read_into(st, op_idx) ==
  IF st.res = "Running" THEN [st EXCEPT !.ops[op_idx].buf = st.resp] ELSE st

read_data(self, lock, call, st, op_idx) ==
  read_into(write_read(st, call, i2c_reads(I2cCmdBuilder(lock, self.direction_pin), 0,
                                           Len(st.ops[op_idx].buf))),
            op_idx)

\* write_byte that takes a NACK on the final byte for an error as well
write_byte_strict(self, lock, call, st, bytes, idx) ==
  check_ack(self, lock, call,
            write_read(st, call,
                       i2c_write(I2cCmdBuilder(lock, self.direction_pin), bytes[idx])),
            FALSE, "NoAckData")

\* one turn of the loop over the bytes of a Write; idx counts from 1 here
write_byte(self, lock, call, st, bytes, idx) ==
  check_ack(self, lock, call,
            write_read(st, call,
                       i2c_write(I2cCmdBuilder(lock, self.direction_pin), bytes[idx])),
            idx = Len(bytes), "NoAckData")

RECURSIVE write_bytes(_, _, _, _, _, _)
write_bytes(self, lock, call, st, bytes, idx) ==
  IF st.res # "Running" \/ idx > Len(bytes) THEN st
  ELSE write_bytes(self, lock, call, write_byte(self, lock, call, st, bytes, idx),
                   bytes, idx + 1)

\* what follows the address phase of an operation
data_phase(self, lock, call, st, op_idx) ==
  IF st.res # "Running" THEN st
  ELSE IF st.ops[op_idx].kind = "Read" THEN read_data(self, lock, call, st, op_idx)
  ELSE write_bytes(self, lock, call, st, st.ops[op_idx].buf, 1)

\* the loop over the operations
RECURSIVE serial_ops(_, _, _, _, _, _)
serial_ops(self, lock, call, st, op_idx, prev_op_was_a_read) ==
  IF st.res # "Running" \/ op_idx > Len(st.ops) THEN st
  ELSE LET is_read == st.ops[op_idx].kind = "Read"
       IN serial_ops(self, lock, call,
                     data_phase(self, lock, call,
                                IF op_idx = 1 \/ prev_op_was_a_read # is_read
                                THEN address_phase(self, lock, call, st, op_idx, is_read)
                                ELSE st,
                                op_idx),
                     op_idx + 1, is_read)

transaction(self, lock, call) ==
  LET new == I2cCmdBuilder(lock, self.direction_pin)
  IN returned(write_read(serial_ops(self, lock, call,
                                    write_read(Begin(call), call,
                                               start(new, self.start_stop_cmds)),
                                    1, FALSE),
                         call, end(new, self.start_stop_cmds)),
              "Ok")

\* for &byte in bytes { cmd.i2c_write(byte) }
RECURSIVE i2c_writes(_, _, _)
i2c_writes(b, bytes, idx) ==
  IF idx > Len(bytes) THEN b ELSE i2c_writes(i2c_write(b, bytes[idx]), bytes, idx + 1)

\* the emitting loop of transaction_fast, which goes on with the builder the
\* START was sent from and opens a repeated START with start, not restart
RECURSIVE fast_emit(_, _, _, _, _)
fast_emit(self, call, b, op_idx, prev_op_was_a_read) ==
  IF op_idx > Len(call.operations) THEN b
  ELSE LET op == call.operations[op_idx]
           is_read == op.kind = "Read"
           b1 == IF op_idx = 1 \/ prev_op_was_a_read # is_read
                 THEN i2c_addr(IF op_idx # 1 THEN start(b, self.start_stop_cmds) ELSE b,
                               call.address, is_read)
                 ELSE b
           b2 == IF is_read THEN i2c_reads(b1, 0, Len(op.buf))
                 ELSE i2c_writes(b1, op.buf, 1)
       IN \* b2 bound to its value, which keeps the evaluation shallow
          CHOOSE cmd_ \in {fast_emit(self, call, v, op_idx + 1, is_read) : v \in {b2}} :
            TRUE

Min(S) == CHOOSE x \in S : \A y \in S : x <= y

\* fast_op that leaves response_idx on the slot of the address ACK
fast_op_drift(st, op_idx, prev_op_was_a_read) ==
  LET op == st.ops[op_idx]
      is_read == op.kind = "Read"
      len == Len(op.buf)
      addr == op_idx = 1 \/ prev_op_was_a_read # is_read
      i0 == st.response_idx
      i1 == i0
      nack(i) == And8(st.resp[i + 1], SLAVE_ACK_MASK) = SLAVE_NOT_ACK
      nacked == {idx \in 0..(len - 2) : nack(i1 + idx)}
      acks(n) == [i \in 1..n |-> "write_ack"]
      s1 == IF addr THEN [st EXCEPT !.walk = Append(@, "addr_ack")] ELSE st
  IN IF addr /\ nack(i0) THEN [s1 EXCEPT !.res = "NoAckAddress"]
     ELSE IF is_read
     THEN [s1 EXCEPT !.ops[op_idx].buf = SubSeq(st.resp, i1 + 1, i1 + len),
                     !.response_idx = i1 + len,
                     !.walk = @ \o [i \in 1..len |-> "read"]]
     ELSE IF nacked # {}
     THEN [s1 EXCEPT !.res = "NoAckData",
                     !.response_idx = i1 + Min(nacked),
                     !.walk = @ \o acks(Min(nacked) + 1)]
     ELSE [s1 EXCEPT !.response_idx = i1 + len, !.walk = @ \o acks(len)]

\* one turn of the parsing loop of transaction_fast; op_idx counts from 1 and
\* response_idx from 0
fast_op(st, op_idx, prev_op_was_a_read) ==
  LET op == st.ops[op_idx]
      is_read == op.kind = "Read"
      len == Len(op.buf)
      addr == op_idx = 1 \/ prev_op_was_a_read # is_read
      i0 == st.response_idx
      i1 == IF addr THEN i0 + 1 ELSE i0
      nack(i) == And8(st.resp[i + 1], SLAVE_ACK_MASK) = SLAVE_NOT_ACK
      nacked == {idx \in 0..(len - 2) : nack(i1 + idx)}
      acks(n) == [i \in 1..n |-> "write_ack"]
      s1 == IF addr THEN [st EXCEPT !.walk = Append(@, "addr_ack")] ELSE st
  IN IF addr /\ nack(i0) THEN [s1 EXCEPT !.res = "NoAckAddress"]
     ELSE IF is_read
     THEN [s1 EXCEPT !.ops[op_idx].buf = SubSeq(st.resp, i1 + 1, i1 + len),
                     !.response_idx = i1 + len,
                     !.walk = @ \o [i \in 1..len |-> "read"]]
     ELSE IF nacked # {}
     THEN [s1 EXCEPT !.res = "NoAckData",
                     !.response_idx = i1 + Min(nacked),
                     !.walk = @ \o acks(Min(nacked) + 1)]
     ELSE [s1 EXCEPT !.response_idx = i1 + len, !.walk = @ \o acks(len)]

RECURSIVE fast_parse(_, _, _)
fast_parse(st, op_idx, prev_op_was_a_read) ==
  IF st.res # "Running" \/ op_idx > Len(st.ops) THEN st
  ELSE fast_parse(fast_op(st, op_idx, prev_op_was_a_read), op_idx + 1,
                  st.ops[op_idx].kind = "Read")

transaction_fast(self, lock, call) ==
  LET cmd0 == start(I2cCmdBuilder(lock, self.direction_pin), self.start_stop_cmds)
  IN returned(fast_parse(write_read(write_read(Begin(call), call, cmd0), call,
                                    end(fast_emit(self, call, cmd0, 1, FALSE),
                                        self.start_stop_cmds)),
                         1, FALSE),
              "Ok")

(***************************************************************************)
(* FtdiSpiDevice.  The device is the record [tck_init_value, is_lsb]; an   *)
(* operation of a transaction is [kind, read, write]: read is the buffer   *)
(* of a Read, a Transfer or a TransferInPlace, write the words of a Write, *)
(* a Transfer or a TransferInPlace (whose one buffer is both), and a       *)
(* DelayNs has neither.  A call is [operations, loopback, fail]: loopback  *)
(* says that MISO is wired to MOSI, fail that the transport refuses the    *)
(* exchange.  clock_bytes_in, clock_bytes_out and clock_bytes are the      *)
(* builder's shift_bytes_in, shift_bytes_out and shift_bytes.              *)
(***************************************************************************)
SpiDevicePins == <<Lower(0), Lower(1), Lower(2), Lower(3)>>

\* FtdiSpiDevice::new: the controller it leaves and what it returns
FtdiSpiDevice_new(m) ==
  LET u == UsedPins(m, SpiDevicePins, "Spi", <<>>)
      m1 == [u.m EXCEPT !.lower.direction = Or8(@, SCK_MASK + MOSI_MASK + CS_MASK),
                        !.lower.value = Or8(@, CS_MASK)]
  IN [m |-> IF u.res[1] = "Ok" THEN set_bank(m1, "lower") ELSE u.m,
      res |-> u.res,
      self |-> [tck_init_value |-> FALSE, is_lsb |-> FALSE]]

\* operations.iter().for_each(|op| match op { .. }): the shifts of the
\* operations from the i-th on
RECURSIVE spi_shifts(_, _, _, _)
spi_shifts(self, b, operations, i) ==
  IF i > Len(operations) THEN b
  ELSE LET op == operations[i]
       IN spi_shifts(self,
            CASE op.kind = "Read" ->
                   shift_bytes_in(b, self.tck_init_value, self.is_lsb, Len(op.read))
              [] op.kind = "Write" ->
                   shift_bytes_out(b, self.tck_init_value, self.is_lsb, op.write)
              [] op.kind \in {"Transfer", "TransferInPlace"} ->
                   shift_bytes(b, self.tck_init_value, self.is_lsb, op.write)
              [] OTHER -> b,
            operations, i + 1)

\* the command of a transaction: CS low, the shifts, CS as it was
spi_command(self, lock, operations) ==
  set_gpio_lower(
    spi_shifts(self,
               set_gpio_lower(NewBuilder,
                              And8(lock.lower.value, Not8(mask(Lower(3)))),
                              lock.lower.direction),
               operations, 1),
    lock.lower.value, lock.lower.direction)

\* the word a slave answers as the k-th word clocked in
SlaveWord(k) == 255 - (k % 256)

\* what the device clocks in while it takes the opcodes from the i-th on, n
\* words having been clocked in before: with MISO wired to MOSI a shift that
\* writes and reads clocks its own words in, otherwise the slave answers
RECURSIVE ClockedIn(_, _, _, _)
ClockedIn(ops, i, loopback, n) ==
  IF i > Len(ops) THEN <<>>
  ELSE LET op == ops[i]
           len == IF op[1] < 128 /\ Bit(op[1], 5) = 1 THEN op[2] + 256 * op[3] + 1
                  ELSE 0
       IN (IF loopback /\ Bit(op[1], 4) = 1 THEN SubSeq(op, 4, 3 + len)
           ELSE [k \in 1..len |-> SlaveWord(n + k)])
          \o ClockedIn(ops, i + 1, loopback, n + len)

\* x.copy_from_slice(&response[len..x.len()]); x.len(): the slice panics
\* unless len <= x.len() <= response.len(), and copy_from_slice panics
\* unless the slice is as long as x.  len -1 stands for the panic.
spi_scatter_op(operations, response, i, len) ==
  LET x == operations[i].read
  IN IF len > Len(x) \/ Len(x) > Len(response) \/ Len(x) - len # Len(x)
     THEN [operations |-> operations, len |-> -1]
     ELSE [operations |-> [operations EXCEPT ![i].read =
                             SubSeq(response, len + 1, Len(x))],
           len |-> len + Len(x)]

\* operations.iter_mut().for_each(|op| { len += match op { .. } }) from the
\* i-th operation on
RECURSIVE spi_scatter(_, _, _, _)
spi_scatter(operations, response, i, len) ==
  IF i > Len(operations) THEN [ops |-> operations, res |-> "Ok"]
  ELSE IF operations[i].kind \in {"Read", "Transfer", "TransferInPlace"}
  THEN LET done == spi_scatter_op(operations, response, i, len)
       IN IF done.len < 0 THEN [ops |-> operations, res |-> "Panic"]
          ELSE spi_scatter(done.operations, response, i + 1, done.len)
  ELSE spi_scatter(operations, response, i + 1, len)

\* <SpiDevice<u8> for FtdiSpiDevice>::transaction: what it leaves in the
\* caller's operations and how it ends, with the exchange it made
spi_transaction(self, lock, call) ==
  LET cmd_ == destruct(spi_command(self, lock, call.operations)).cmd
      response == ClockedIn(Decode(cmd_), 1, call.loopback, 0)
  IN IF call.fail
     THEN [ops |-> call.operations, res |-> "Transport",
           cmd |-> <<>>, response |-> <<>>]
     ELSE [ops |-> spi_scatter(call.operations, response, 1, 0).ops,
           res |-> spi_scatter(call.operations, response, 1, 0).res,
           cmd |-> cmd_, response |-> response]

(***************************************************************************)
(* FtdiSpi and FtdiSpiHalfduplex, the SPI buses.  A bus is the record      *)
(* [kind, tck_init_value, is_lsb]; the modes MODE_0 .. MODE_3 are 0 .. 3.  *)
(* A call of a bus operation is [op, read, write, fail]: read is the       *)
(* buffer the operation fills (of read, transfer and transfer_in_place),   *)
(* write the words it sends, fail says that the transport refuses the      *)
(* exchange.  The slave answers as in a transaction of the SPI device.     *)
(***************************************************************************)
SpiPins == <<Lower(0), Lower(1), Lower(2)>>

\* FtdiSpi::new and FtdiSpiHalfduplex::new, which are the same code
FtdiSpi_new(m, kind) ==
  LET u == UsedPins(m, SpiPins, "Spi", <<>>)
      m1 == [u.m EXCEPT !.lower.direction = Or8(@, SCK_MASK + MOSI_MASK)]
  IN [m |-> IF u.res[1] = "Ok" THEN set_bank(m1, "lower") ELSE u.m,
      res |-> u.res,
      self |-> [kind |-> kind, tck_init_value |-> FALSE, is_lsb |-> FALSE]]

\* lock.exec(cmd)?: the exchange, unless the transport refuses it
try_exec(m, b, fail) == IF fail THEN m ELSE exec(m, b)

\* a set_mode that stores the bit order before it looks at the mode
spi_set_mode_eager(self, lock, mode, is_lsb, fail) ==
  IF mode \notin {0, 2}
  THEN [self |-> [self EXCEPT !.is_lsb = is_lsb], m |-> lock, res |-> "NotSupported"]
  ELSE LET m1 == [lock EXCEPT !.lower.value =
                    IF mode = 0 THEN And8(@, Not8(SCK_MASK)) ELSE Or8(@, SCK_MASK)]
       IN [self |-> [self EXCEPT !.tck_init_value = (mode = 2), !.is_lsb = is_lsb],
           m |-> try_exec(m1, set_gpio_lower(NewBuilder, m1.lower.value,
                                             m1.lower.direction), fail),
           res |-> IF fail THEN "Transport" ELSE "Ok"]

\* FtdiSpi::set_mode and FtdiSpiHalfduplex::set_mode, which are the same
\* code: the bus and the controller it leaves and what it returns
spi_set_mode(self, lock, mode, is_lsb, fail) ==
  IF mode \notin {0, 2}
  THEN [self |-> self, m |-> lock, res |-> "NotSupported"]
  ELSE LET m1 == [lock EXCEPT !.lower.value =
                    IF mode = 0 THEN And8(@, Not8(SCK_MASK)) ELSE Or8(@, SCK_MASK)]
       IN [self |-> [self EXCEPT !.tck_init_value = (mode = 2), !.is_lsb = is_lsb],
           m |-> try_exec(m1, set_gpio_lower(NewBuilder, m1.lower.value,
                                             m1.lower.direction), fail),
           res |-> IF fail THEN "Transport" ELSE "Ok"]

\* the command of read, write, transfer and transfer_in_place; the
\* half-duplex bus first sets the lower bank, with MOSI an input for a read
spi_bus_command(self, lock, call) ==
  LET b == IF self.kind # "FtdiSpiHalfduplex" THEN NewBuilder
           ELSE set_gpio_lower(NewBuilder, lock.lower.value,
                               IF call.op = "read"
                               THEN And8(lock.lower.direction, Not8(MOSI_MASK))
                               ELSE lock.lower.direction)
  IN CASE call.op = "read" ->
            shift_bytes_in(b, self.tck_init_value, self.is_lsb, Len(call.read))
       [] call.op = "write" ->
            shift_bytes_out(b, self.tck_init_value, self.is_lsb, call.write)
       [] OTHER -> shift_bytes(b, self.tck_init_value, self.is_lsb, call.write)

\* words.copy_from_slice(&response), which panics unless both are as long
copy_from_slice(m, words, response) ==
  IF Len(words) = Len(response) THEN [m |-> m, res |-> "Ok", read |-> response]
  ELSE [m |-> m, res |-> "Panic", read |-> words]

\* <SpiBus for FtdiSpi> and <SpiBus for FtdiSpiHalfduplex>: read, write,
\* flush, transfer_in_place and transfer
spi_bus(self, lock, call) ==
  IF call.op = "flush" THEN [m |-> lock, res |-> "Ok", read |-> call.read]
  ELSE IF self.kind = "FtdiSpiHalfduplex" /\ call.op \in {"transfer", "transfer_in_place"}
  THEN [m |-> lock, res |-> "NotSupported", read |-> call.read]
  ELSE IF call.fail THEN [m |-> lock, res |-> "Transport", read |-> call.read]
  ELSE IF call.op = "write"
  THEN [m |-> exec(lock, spi_bus_command(self, lock, call)), res |-> "Ok",
        read |-> call.read]
  ELSE copy_from_slice(
         exec(lock, spi_bus_command(self, lock, call)), call.read,
         ClockedIn(Decode(destruct(spi_bus_command(self, lock, call)).cmd),
                   1, FALSE, 0))

(***************************************************************************)
(* FtdiSwd.  A SwdAddr is <<"Dp", reg>> or <<"Ap", reg>>; a u32 is the     *)
(* pair <<high half, low half>> of its 16-bit halves.  A call is           *)
(* [op, addr, value, target, fail]: target is what the target drives on    *)
(* SWDIO, bit by bit, on the clocks the master reads, and fail the number  *)
(* of the exchange the transport refuses, 0 when it refuses none.  A run   *)
(* is [wire, pos, driven, res, value]: wire holds the exchanges made       *)
(* ([cmd, response, events]), pos the number of target bits read, driven   *)
(* whether the device drives SWDIO, res "Running" until the call returns.  *)
(***************************************************************************)
\* impl From<SwdAddr> for u8: `addr << 1 & ADDR_MASK` with ADDR_MASK
\* 0b11 << 2, and AP_MASK 1 << 1
SwdAddr_u8(value) ==
  IF value[1] = "Dp" THEN And8((value[2] * 2) % 256, 12)
  ELSE Or8(And8((value[2] * 2) % 256, 12), 2)

\* u8::count_ones of the low n bits
RECURSIVE count_ones(_, _)
count_ones(v, n) == IF n = 0 THEN 0 ELSE Bit(v, n - 1) + count_ones(v, n - 1)

\* u32::count_ones
count_ones32(value) == count_ones(value[1], 16) + count_ones(value[2], 16)

\* u32::to_le_bytes
to_le_bytes(value) ==
  <<value[2] % 256, value[2] \div 256, value[1] % 256, value[1] \div 256>>

\* u32::from_le_bytes
from_le_bytes(bytes) == <<bytes[3] + 256 * bytes[4], bytes[1] + 256 * bytes[2]>>

\* FtdiSwd::build_request: START_MASK 1 << 0, READ_MASK 1 << 2, PARITY_MASK
\* 1 << 5, PARK_MASK 1 << 7
build_request(is_read, addr) ==
  LET request == Or8(Or8(1 + 128, IF is_read THEN 4 ELSE 0), SwdAddr_u8(addr))
  IN Or8(request, IF count_ones(And8(request \div 2, 15), 8) # 0 THEN 32 ELSE 0)

SwdCmdBuilder(lock, direction_pin) ==
  [cmd |-> <<>>, read_len |-> 0, lock |-> lock, direction_pin |-> direction_pin]

swd_out(b) ==
  IF b.direction_pin = <<>>
  THEN set_gpio_lower(b, b.lock.lower.value,
                      Or8(b.lock.lower.direction, SWCLK + SWDIO))
  ELSE IF b.direction_pin[1][1] = "lower"
  THEN set_gpio_lower(b, Or8(b.lock.lower.value, mask(b.direction_pin[1])),
                      Or8(b.lock.lower.direction, SWCLK + SWDIO))
  ELSE set_gpio_upper(
         set_gpio_lower(b, b.lock.lower.value,
                        Or8(b.lock.lower.direction, SWCLK + SWDIO)),
         Or8(b.lock.upper.value, mask(b.direction_pin[1])),
         b.lock.upper.direction)

swd_in(b) ==
  set_gpio_lower(
    IF b.direction_pin # <<>> /\ b.direction_pin[1][1] = "upper"
    THEN set_gpio_upper(b, b.lock.upper.value, b.lock.upper.direction)
    ELSE b,
    b.lock.lower.value, Or8(b.lock.lower.direction, SWCLK))

\* TCK_INIT_VALUE is false and IS_LSB true in every shift of mod cmd
trn(b) == shift_bits_out(swd_in(b), FALSE, TRUE, 255, 1)

swd_send_request(b, request) == shift_bytes_out(swd_out(b), FALSE, TRUE, <<request>>)

swd_read_response(b) == shift_bits_in(swd_in(b), FALSE, TRUE, RESPONSE_BITS)

swd_read_data(b) ==
  shift_bits_in(shift_bytes_in(swd_in(b), FALSE, TRUE, DATA_BYTES),
                FALSE, TRUE, PARITY_BITS)

\* swd_write_data with the parity bit left 0
swd_write_data_no_parity(b, value) ==
  shift_bits_out(shift_bytes_out(swd_out(b), FALSE, TRUE, to_le_bytes(value)),
                 FALSE, TRUE, 0, PARITY_BITS)

swd_write_data(b, value) ==
  shift_bits_out(shift_bytes_out(swd_out(b), FALSE, TRUE, to_le_bytes(value)),
                 FALSE, TRUE, count_ones32(value) % 2, PARITY_BITS)

\* the clocks of the shift opcode op: the bits it writes in the order they
\* leave, least-significant first when the opcode's LSB flag is set
ShiftOut(op) ==
  IF Bit(op[1], 1) = 1
  THEN [k \in 1..(op[2] + 1) |->
          IF Bit(op[1], 3) = 1 THEN Bit(op[3], k - 1) ELSE Bit(op[3], 8 - k)]
  ELSE [k \in 1..(8 * (Len(op) - 3)) |->
          IF Bit(op[1], 3) = 1 THEN Bit(op[4 + ((k - 1) \div 8)], (k - 1) % 8)
          ELSE Bit(op[4 + ((k - 1) \div 8)], 7 - ((k - 1) % 8))]

\* the bytes the device answers for the bits it clocked in with the shift
\* opcode op: whole bytes in byte mode; in bit mode one byte, into which an
\* LSB-first shift moves the bits from the top and an MSB-first shift from
\* the bottom
RECURSIVE Weigh(_, _, _)
Weigh(bits, k, weight) ==
  IF k > Len(bits) THEN 0 ELSE bits[k] * Pow2(weight[k]) + Weigh(bits, k + 1, weight)

ShiftIn(op, bits) ==
  IF Bit(op[1], 1) = 1
  THEN <<Weigh(bits, 1, [k \in 1..Len(bits) |->
                           IF Bit(op[1], 3) = 1 THEN (8 - Len(bits)) + (k - 1)
                           ELSE Len(bits) - k])>>
  ELSE [n \in 1..(Len(bits) \div 8) |->
          Weigh(SubSeq(bits, 8 * n - 7, 8 * n), 1,
                [k \in 1..8 |-> IF Bit(op[1], 3) = 1 THEN k - 1 ELSE 8 - k])]

\* the bit the target drives on the k-th clock the master reads; the line is
\* pulled high where the target drives nothing
TargetBit(target, k) == IF k <= Len(target) THEN target[k] ELSE 1

\* what the device does with the opcodes from the i-th on: the events on
\* SWDIO, clock by clock (<<"w", bit>> driven by the device, <<"z">> a clock
\* with the line released, <<"r", bit>> read from the target), and the
\* response
RECURSIVE SwdDevice(_, _, _, _, _)
SwdDevice(ops, i, target, pos, driven) ==
  IF i > Len(ops)
  THEN [events |-> <<>>, response |-> <<>>, pos |-> pos, driven |-> driven]
  ELSE LET op == ops[i]
           shifts == op[1] < 128 /\ Bit(op[1], 6) = 0
           reads == shifts /\ Bit(op[1], 5) = 1
           clocks == IF ~shifts THEN 0
                     ELSE IF Bit(op[1], 1) = 1 THEN op[2] + 1
                     ELSE 8 * (op[2] + 256 * op[3] + 1)
           in == [k \in 1..(IF reads THEN clocks ELSE 0) |-> TargetBit(target, pos + k)]
           rest == SwdDevice(ops, i + 1, target, pos + Len(in),
                             IF op[1] = SetDataBitsLowbyte
                             THEN And8(op[3], SWDIO) = SWDIO ELSE driven)
       IN [events |->
             [k \in 1..clocks |->
                IF reads THEN <<"r", in[k]>>
                ELSE IF driven THEN <<"w", ShiftOut(op)[k]>>
                ELSE <<"z">>] \o rest.events,
           response |-> (IF reads THEN ShiftIn(op, in) ELSE <<>>) \o rest.response,
           pos |-> rest.pos, driven |-> rest.driven]

SwdBegin(lock) ==
  [wire |-> <<>>, pos |-> 0, driven |-> And8(lock.ft.lower[2], SWDIO) = SWDIO,
   res |-> "Running", value |-> <<>>]

\* the exchange io that the device made of the command cmd_
swd_exchanged(st, cmd_, io) ==
  [st EXCEPT !.wire = Append(@, [cmd |-> cmd_, response |-> io.response,
                                 events |-> io.events]),
             !.pos = io.pos, !.driven = io.driven]

\* lock.write_read(cmd.as_slice(), &mut response)?, once the call has not
\* returned
swd_write_read(st, call, b) ==
  IF st.res # "Running" THEN st
  ELSE IF Len(st.wire) + 1 = call.fail THEN [st EXCEPT !.res = "Transport"]
  ELSE swd_exchanged(st, destruct(b).cmd,
                     SwdDevice(Decode(destruct(b).cmd), 1, call.target, st.pos,
                               st.driven))

\* the error of an ACK that is not REPONSE_SUCCESS
ack_error(ack) ==
  IF ack = REPONSE_WAIT THEN "AckWait"
  ELSE IF ack = REPONSE_FAILED THEN "AckFailed"
  ELSE "UnknownAck"

\* let ack = response[0] >> 5 of the last exchange
last_ack(st) == st.wire[Len(st.wire)].response[1] \div 32

\* the match on an ACK that is not REPONSE_SUCCESS, once the call has not
\* returned: value carries the x of UnknownAck(x)
ack_failed(st, ack) ==
  IF st.res # "Running" THEN st
  ELSE [st EXCEPT !.res = ack_error(ack),
                  !.value = IF ack_error(ack) = "UnknownAck" THEN <<ack>> ELSE <<>>]

\* read: the final turnaround and the error of an ACK other than success
swd_read_ack(self, lock, call, st) ==
  IF st.res # "Running" \/ last_ack(st) = REPONSE_SUCCESS THEN st
  ELSE ack_failed(swd_write_read(st, call, trn(SwdCmdBuilder(lock, self.direction_pin))),
                  last_ack(st))

\* swd_parse with the parity left unchecked
swd_parse_unchecked(st, response) ==
  IF st.res # "Running" THEN st
  ELSE [st EXCEPT !.res = "Ok", !.value = from_le_bytes(SubSeq(response, 1, 4))]

\* read: the value and the parity of the five bytes of the data exchange
swd_parse(st, response) ==
  IF st.res # "Running" THEN st
  ELSE IF (response[5] \div 128) % 2
            # count_ones32(from_le_bytes(SubSeq(response, 1, 4))) % 2
  THEN [st EXCEPT !.res = "ParityError"]
  ELSE [st EXCEPT !.res = "Ok", !.value = from_le_bytes(SubSeq(response, 1, 4))]

swd_parse_last(st) ==
  IF st.res # "Running" THEN st ELSE swd_parse(st, st.wire[Len(st.wire)].response)

\* FtdiSwd::read
swd_read(self, lock, call) ==
  swd_parse_last(
    swd_write_read(
      swd_read_ack(self, lock, call,
        swd_write_read(SwdBegin(lock), call,
          swd_read_response(trn(swd_send_request(
            SwdCmdBuilder(lock, self.direction_pin),
            build_request(TRUE, call.addr)))))),
      call, trn(swd_read_data(SwdCmdBuilder(lock, self.direction_pin)))))

\* write: the error of an ACK other than success
swd_write_ack(st) ==
  IF st.res # "Running" \/ last_ack(st) = REPONSE_SUCCESS THEN st
  ELSE ack_failed(st, last_ack(st))

\* FtdiSwd::write
swd_write(self, lock, call) ==
  returned(
    swd_write_read(
      swd_write_ack(
        swd_write_read(SwdBegin(lock), call,
          trn(swd_read_response(trn(swd_send_request(
            SwdCmdBuilder(lock, self.direction_pin),
            build_request(FALSE, call.addr))))))),
      call, swd_write_data(SwdCmdBuilder(lock, self.direction_pin), call.value)),
    "Ok")

(***************************************************************************)
(* jtag_detect.rs: JtagDetectTdi bit-bangs JTAG on four lower pins.  The   *)
(* chain on the pins is part of the model: chain.devices are the devices   *)
(* from the one nearest TDO on, <<"idcode", id>> or <<"bypass">>;          *)
(* chain.pins the pins its TCK, TDI, TDO and TMS are wired to; chain.pull  *)
(* the level of a pin nothing drives; chain.tap the state of the TAP       *)
(* controllers, chain.dr the data registers as one shift register,         *)
(* chain.tdo the level of TDO and chain.tck the last level seen on TCK.    *)
(***************************************************************************)
\* the 16-state TAP controller: the state after a rising edge of TCK
TapNext(tap, tms) ==
  CASE tap = "TestLogicReset" -> IF tms = 1 THEN "TestLogicReset" ELSE "RunTestIdle"
    [] tap = "RunTestIdle" -> IF tms = 1 THEN "SelectDR" ELSE "RunTestIdle"
    [] tap = "SelectDR" -> IF tms = 1 THEN "SelectIR" ELSE "CaptureDR"
    [] tap = "CaptureDR" -> IF tms = 1 THEN "Exit1DR" ELSE "ShiftDR"
    [] tap = "ShiftDR" -> IF tms = 1 THEN "Exit1DR" ELSE "ShiftDR"
    [] tap = "Exit1DR" -> IF tms = 1 THEN "UpdateDR" ELSE "PauseDR"
    [] tap = "PauseDR" -> IF tms = 1 THEN "Exit2DR" ELSE "PauseDR"
    [] tap = "Exit2DR" -> IF tms = 1 THEN "UpdateDR" ELSE "ShiftDR"
    [] tap = "UpdateDR" -> IF tms = 1 THEN "SelectDR" ELSE "RunTestIdle"
    [] tap = "SelectIR" -> IF tms = 1 THEN "TestLogicReset" ELSE "CaptureIR"
    [] tap = "CaptureIR" -> IF tms = 1 THEN "Exit1IR" ELSE "ShiftIR"
    [] tap = "ShiftIR" -> IF tms = 1 THEN "Exit1IR" ELSE "ShiftIR"
    [] tap = "Exit1IR" -> IF tms = 1 THEN "UpdateIR" ELSE "PauseIR"
    [] tap = "PauseIR" -> IF tms = 1 THEN "Exit2IR" ELSE "PauseIR"
    [] tap = "Exit2IR" -> IF tms = 1 THEN "UpdateIR" ELSE "ShiftIR"
    [] tap = "UpdateIR" -> IF tms = 1 THEN "SelectDR" ELSE "RunTestIdle"

\* the bits of a u32, least significant first
Bits32(value) ==
  [k \in 1..32 |-> IF k <= 16 THEN Bit(value[2], k - 1) ELSE Bit(value[1], k - 17)]

\* what Capture-DR loads after a reset: the IDCODE of a device that has one,
\* the 0 of the bypass register of one that has none
RECURSIVE Captured(_)
Captured(devices) ==
  IF devices = <<>> THEN <<>>
  ELSE (IF Head(devices)[1] = "idcode" THEN Bits32(Head(devices)[2]) ELSE <<0>>)
         \o Captured(Tail(devices))

\* the level of lower pin p: what the FTDI drives on it when it is an
\* output, TDO on the pin the chain drives, else the pull
PinLevel(chain, low, p) ==
  IF Bit(low[2], p) = 1 THEN Bit(low[1], p)
  ELSE IF p = chain.pins.tdo THEN chain.tdo
  ELSE chain.pull

\* the chain after the lower bank is set to low = <<value, direction>>: on a
\* rising edge of TCK the TAP moves, Capture-DR loads and Shift-DR shifts
\* TDI in; on a falling edge in Shift-DR TDO takes the register's first bit
ChainSet(chain, low) ==
  LET tck == PinLevel(chain, low, chain.pins.tck)
      tms == PinLevel(chain, low, chain.pins.tms)
      tdi == PinLevel(chain, low, chain.pins.tdi)
  IN IF tck = 1 /\ chain.tck = 0
     THEN [chain EXCEPT
             !.tck = 1,
             !.tap = TapNext(chain.tap, tms),
             !.dr = IF chain.tap = "CaptureDR" THEN Captured(chain.devices)
                    ELSE IF chain.tap = "ShiftDR" THEN Tail(@) \o <<tdi>>
                    ELSE @]
     ELSE IF tck = 0 /\ chain.tck = 1
     THEN [chain EXCEPT !.tck = 0,
                        !.tdo = IF chain.tap = "ShiftDR" THEN chain.dr[1] ELSE @]
     ELSE chain

\* the byte GetDataBitsLowbyte answers
ReadLow(chain, low) ==
  Weigh([k \in 1..8 |-> PinLevel(chain, low, k - 1)], 1, [k \in 1..8 |-> k - 1])

\* F of x, with x evaluated once before F is
Then(x, F(_)) == CHOOSE r \in {F(v) : v \in {x}} : TRUE

\* the device and the chain take one opcode: io is [chain, low, response],
\* low the lower bank of the device
ChainOp(io, op) ==
  IF op[1] = SetDataBitsLowbyte
  THEN [io EXCEPT !.chain = ChainSet(@, <<op[2], op[3]>>), !.low = <<op[2], op[3]>>]
  ELSE IF op[1] = GetDataBitsLowbyte
  THEN [io EXCEPT !.response = Append(@, ReadLow(io.chain, io.low))]
  ELSE io

\* the opcodes from the i-th to the j-th taken in order, by halves, which
\* keeps the evaluation shallow
RECURSIVE ChainOps(_, _, _, _)
ChainOps(ops, i, j, io) ==
  IF i > j THEN io
  ELSE IF i = j THEN ChainOp(io, ops[i])
  ELSE Then(ChainOps(ops, i, (i + j) \div 2, io),
            LAMBDA v : ChainOps(ops, ((i + j) \div 2) + 1, j, v))

JtagChain(ops, chain, low) ==
  Then([ops |-> ops, io |-> [chain |-> chain, low |-> low, response |-> <<>>]],
       LAMBDA v : ChainOps(v.ops, 1, Len(v.ops), v.io))

\* JtagDetectTdi::new: the results of alloc_pin are dropped
JtagDetectTdi_new(m, tck, tdi, tdo, tms) ==
  LET a == alloc_pin(alloc_pin(alloc_pin(alloc_pin(m, Lower(tck), "Output").m,
                                         Lower(tdi), "Output").m,
                               Lower(tdo), "Input").m,
                     Lower(tms), "Output").m
  IN [m |-> [a EXCEPT !.lower.direction =
                        Or8(@, Or8(Or8(Pow2(tck), Pow2(tdi)), Pow2(tms)))],
      self |-> [tck |-> tck, tdi |-> tdi, tdo |-> tdo, tms |-> tms]]

\* lock.lower.value | tck_val << self.tck | tdi_val << self.tdi
\*   | tms_val << self.tms
detect_value(self, lock, tck_val, tms_val, tdi_val) ==
  Or8(Or8(Or8(lock.lower.value, tck_val * Pow2(self.tck)),
          tdi_val * Pow2(self.tdi)),
      tms_val * Pow2(self.tms))

\* one clock of clock_tcks: TCK high, read, TCK low
detect_clock(b, self, lock, tms_val, tdi_val) ==
  set_gpio_lower(
    gpio_lower(
      set_gpio_lower(b, detect_value(self, lock, 1, tms_val, tdi_val),
                     lock.lower.direction)),
    detect_value(self, lock, 0, tms_val, tdi_val), lock.lower.direction)

\* the command of clock_tck (count 1) and of clock_tcks: TCK low, then
\* count clocks
clock_tcks_cmd(self, lock, tms_val, tdi_val, count) ==
  LET first == set_gpio_lower(NewBuilder,
                              detect_value(self, lock, 0, tms_val, tdi_val),
                              lock.lower.direction)
      clock == detect_clock(NewBuilder, self, lock, tms_val, tdi_val)
  IN [cmd |-> first.cmd \o [k \in 1..(count * Len(clock.cmd)) |->
                              clock.cmd[((k - 1) % Len(clock.cmd)) + 1]],
      read_len |-> count * clock.read_len]

\* clock_tck and clock_tcks, once the call has not returned: the exchange
\* and `response & 1 << self.tdo != 0` of each byte read.  A run of a scan
\* is [wire, chain, low, res, tdos, idcodes, current_id, bit_count,
\* consecutive_bypass, done]: wire the commands exchanged, low the lower
\* bank of the device, tdos the bits of the last exchange.
clock_tcks(st, self, lock, call, tms_val, tdi_val, count) ==
  IF st.res # "Running" THEN st
  ELSE IF Len(st.wire) + 1 = call.fail THEN [st EXCEPT !.res = "Transport"]
  ELSE Then(destruct(clock_tcks_cmd(self, lock, tms_val, tdi_val, count)).cmd,
            LAMBDA bytes :
              Then(JtagChain(Decode(bytes), st.chain, st.low),
                   LAMBDA io :
                     [st EXCEPT !.wire = Append(@, bytes), !.chain = io.chain,
                                !.low = io.low,
                                !.tdos = [k \in 1..Len(io.response) |->
                                            Bit(io.response[k], self.tdo)]]))

\* shift_id with the bits taken most significant first
shift_id_msb_first(current_id, tdo_val) ==
  <<((current_id[1] * 2) % 65536) + (current_id[2] \div 32768),
    ((current_id[2] * 2) % 65536) + tdo_val>>

\* current_id >> 1 | if tdo_val { 0x8000_0000 } else { 0 }
shift_id(current_id, tdo_val) ==
  <<(current_id[1] \div 2) + 32768 * tdo_val,
    (current_id[2] \div 2) + 32768 * (current_id[1] % 2)>>

\* the body of the loop over tdos, with break 'outer as done
parse_tdo(st, tdo_val) ==
  LET a == IF st.bit_count = 0 /\ tdo_val = 0
           THEN [st EXCEPT !.idcodes = Append(@, <<"None">>),
                           !.consecutive_bypass = @ + 1]
           ELSE [st EXCEPT !.current_id = shift_id(@, tdo_val),
                           !.bit_count = @ + 1,
                           !.consecutive_bypass = 0]
  IN IF a.consecutive_bypass = ID_LEN THEN [a EXCEPT !.done = TRUE]
     ELSE IF a.bit_count = ID_LEN
     THEN IF a.current_id = <<65535, 65535>> THEN [a EXCEPT !.done = TRUE]
          ELSE [a EXCEPT !.idcodes = Append(@, <<"Some", a.current_id>>),
                         !.bit_count = 0]
     ELSE a

\* for tdo_val in tdos, from the i-th to the j-th, by halves
RECURSIVE parse_tdos(_, _, _)
parse_tdos(st, i, j) ==
  IF i > j THEN st
  ELSE IF i = j
  THEN IF st.res # "Running" \/ st.done THEN st ELSE parse_tdo(st, st.tdos[i])
  ELSE Then(parse_tdos(st, i, (i + j) \div 2),
            LAMBDA v : parse_tdos(v, ((i + j) \div 2) + 1, j))

\* 'outer: loop: exchanges of ID_LEN clocks until a break
RECURSIVE detect_loop(_, _, _, _)
detect_loop(st, self, lock, call) ==
  Then(st, LAMBDA v :
         IF v.res # "Running" \/ v.done THEN v
         ELSE detect_loop(
                Then(clock_tcks(v, self, lock, call, 0, call.tdi_val, ID_LEN),
                     LAMBDA w : parse_tdos(w, 1, ID_LEN)),
                self, lock, call))

\* JtagDetectTdi::goto_idle
detect_goto_idle(st, self, lock, call) ==
  Then(Then(Then(st, LAMBDA v : clock_tcks(v, self, lock, call, 1, 1, 5)),
            LAMBDA v : clock_tcks(v, self, lock, call, 0, 1, 1)),
       LAMBDA v : clock_tcks(v, self, lock, call, 0, 1, 1))

\* scan_with up to the loop: Select-DR-Scan, Capture-DR, Shift-DR
detect_enter(st, self, lock, call) ==
  Then(Then(Then(detect_goto_idle(st, self, lock, call),
                 LAMBDA v : clock_tcks(v, self, lock, call, 1, 1, 1)),
            LAMBDA v : clock_tcks(v, self, lock, call, 0, 1, 1)),
       LAMBDA v : clock_tcks(v, self, lock, call, 0, 1, 1))

\* scan_with after the loop: Exit1-DR, Update-DR, Run-Test/Idle
detect_leave(st, self, lock, call) ==
  Then(Then(Then(st, LAMBDA v : clock_tcks(v, self, lock, call, 1, 0, 1)),
            LAMBDA v : clock_tcks(v, self, lock, call, 1, 0, 1)),
       LAMBDA v : clock_tcks(v, self, lock, call, 0, 0, 1))

\* examples/jtag_detect.rs: `ids_scan0.len() - ids_scan1.len() == 32` in
\* usize, where a negative difference panics or wraps
detected(ids_scan0, ids_scan1) ==
  Len(ids_scan0) >= Len(ids_scan1) /\ Len(ids_scan0) - Len(ids_scan1) = 32

DetectBegin(lock, chain) ==
  [wire |-> <<>>, chain |-> chain, low |-> lock.ft.lower, res |-> "Running",
   tdos |-> <<>>, idcodes |-> <<>>, current_id |-> <<0, 0>>, bit_count |-> 0,
   consecutive_bypass |-> 0, done |-> FALSE]

\* JtagDetectTdi::scan_with
detect_scan_with(self, lock, chain, call) ==
  Then(detect_leave(
         detect_loop(detect_enter(DetectBegin(lock, chain), self, lock, call),
                     self, lock, call),
         self, lock, call),
       LAMBDA v : returned(v, "Ok"))

(***************************************************************************)
(* The state.                                                              *)
(***************************************************************************)
VARIABLES
  \* -- a command builder driven call by call --
  cmd,              \* MpsseCmdBuilder.cmd
  read_len,         \* MpsseCmdBuilder.read_len
  tck_init_value,   \* the clock polarity the caller passes to every shift
  is_lsb,           \* the bit order the caller passes to every shift
  calls,            \* history: the builder calls made so far, <<name, n>>
  built,            \* <<what destruct returned>>, or <<>> while building
  \* -- one controller and the handles that share it --
  mtx,              \* the FtdiMpsse inside the Arc<Mutex<..>>
  handles,          \* the bag of live handles: [kind, pins, owned],
                    \* pins being the pins the handle's Drop frees, in
                    \* order, and owned the pins it allocated itself
  result,           \* what the last operation returned
  \* -- threads sharing one controller --
  guard,            \* the thread that holds the MutexGuard, 0 when none does
  threads,          \* per thread: [prog, pc], the steps of its operation and
                    \* the index of the next one; pc 0 when it runs nothing
  in_flight,        \* the exchanges on the device, oldest first: the thread
                    \* whose command was written and whose response is unread
  reader,           \* <<the thread that read the last response, the thread
                    \* whose command it answers>>
  \* -- one protocol handle and the transaction made on it --
  i2c,              \* FtdiI2c: [start_stop_cmds, direction_pin, enable_fast]
  spi,              \* FtdiSpi or FtdiSpiHalfduplex: [kind, tck_init_value,
                    \* is_lsb]
  swd,              \* FtdiSwd: [direction_pin]
  jtag,             \* JtagDetectTdi: [tck, tdi, tdo, tms]
  usb,              \* one FtdiContext::write_read: [n, read, read_len, device,
                    \* received, fail, res], or <<>> outside SpecTransport
  outcome           \* <<>> before the transaction, then <<[call, run]>>: the
                    \* arguments and environment of the last call and its
                    \* run (with bus, what an I2C run put on the bus)

bvars == <<cmd, read_len, tck_init_value, is_lsb, calls, built>>

pvars == <<mtx, handles, result>>

mvars == <<guard, threads, in_flight, reader>>

xvars == <<i2c, spi, swd, jtag, usb, outcome>>

vars == <<bvars, pvars, mvars, xvars>>

\* the parts of the state a specification does not use stay as they start
BuilderIdle ==
  /\ cmd = <<>> /\ read_len = 0 /\ tck_init_value = FALSE /\ is_lsb = FALSE
  /\ calls = <<>> /\ built = <<>>

PinsIdle ==
  /\ mtx = open("FT232H", "A")
  /\ handles = EmptyBag
  /\ result = <<"Ok">>

TransactionIdle ==
  /\ i2c = <<>>
  /\ spi = <<>>
  /\ swd = <<>>
  /\ jtag = <<>>
  /\ usb = <<>>
  /\ outcome = <<>>

MutexIdle ==
  /\ guard = 0
  /\ threads = [t \in 1..MaxThreads |-> [prog |-> <<>>, pc |-> 0]]
  /\ in_flight = <<>>
  /\ reader = <<0, 0>>

(***************************************************************************)
(* SpecBuilder: any sequence of at most MaxCalls builder calls, then       *)
(* destruct.                                                               *)
(***************************************************************************)
\* the payload of n bytes the callers hand over: byte i is (i * 7 + 3) as u8,
\* the pattern of examples/spi_loopback.rs
Data(n) == [i \in 1..n |-> ((i - 1) * 7 + 3) % 256]

ByteLens == 0..MaxLen
InLens == ByteLens \cup {MAX_BYTES_SHIFT, MAX_BYTES_SHIFT + 1}
BitLens == {0, 1, MAX_BITS_SHIFT}
\* <<len, tdi>> of a TMS shift
TmsArgs == {<<0, FALSE>>, <<1, TRUE>>, <<MAX_TMS_SHIFT, FALSE>>}

Builder == [cmd |-> cmd, read_len |-> read_len]

BuilderInit ==
  /\ cmd = <<>>
  /\ read_len = 0
  /\ tck_init_value \in BOOLEAN
  /\ is_lsb \in BOOLEAN
  /\ calls = <<>>
  /\ built = <<>>
  /\ PinsIdle
  /\ MutexIdle
  /\ TransactionIdle

\* one builder call: the builder becomes b, the history records <<name, n>>
Call(b, name, n) ==
  /\ built = <<>>
  /\ Len(calls) < MaxCalls
  /\ cmd' = b.cmd
  /\ read_len' = b.read_len
  /\ calls' = Append(calls, <<name, n>>)
  /\ UNCHANGED <<tck_init_value, is_lsb, built, pvars, mvars, xvars>>

CallGpioLower == Call(gpio_lower(Builder), "gpio_lower", 0)

CallGpioUpper == Call(gpio_upper(Builder), "gpio_upper", 0)

CallSetGpio ==
  \/ Call(set_gpio_lower(Builder, 8, 11), "set_gpio_lower", 0)
  \/ Call(set_gpio_upper(Builder, 0, 1), "set_gpio_upper", 0)

CallConfig ==
  \/ Call(set_clock(Builder, 0, "SomeFalse"), "set_clock", 0)
  \/ Call(enable_loopback(Builder, TRUE), "enable_loopback", 0)

CallShiftBytesOut ==
  \E n \in ByteLens :
    Call(shift_bytes_out(Builder, tck_init_value, is_lsb, Data(n)), "shift_bytes_out", n)

CallShiftBytesIn ==
  \E n \in InLens :
    Call(shift_bytes_in(Builder, tck_init_value, is_lsb, n), "shift_bytes_in", n)

CallShiftBytes ==
  \E n \in ByteLens :
    Call(shift_bytes(Builder, tck_init_value, is_lsb, Data(n)), "shift_bytes", n)

CallShiftBitsOut ==
  \E n \in BitLens :
    Call(shift_bits_out(Builder, tck_init_value, is_lsb, 165, n), "shift_bits_out", n)

CallShiftBitsIn ==
  \E n \in BitLens :
    Call(shift_bits_in(Builder, tck_init_value, is_lsb, n), "shift_bits_in", n)

CallShiftBits ==
  \E n \in BitLens :
    Call(shift_bits(Builder, tck_init_value, is_lsb, 165, n), "shift_bits", n)

CallClockTmsOut ==
  \E a \in TmsArgs :
    Call(clock_tms_out(Builder, a[2], 1, a[1]), "clock_tms_out", a[1])

CallClockTms ==
  \E a \in TmsArgs :
    Call(clock_tms(Builder, a[2], 1, a[1]), "clock_tms", a[1])

Destruct ==
  /\ built = <<>>
  /\ built' = <<destruct(Builder)>>
  /\ UNCHANGED <<cmd, read_len, tck_init_value, is_lsb, calls, pvars, mvars, xvars>>

BuilderNext ==
  \/ CallGpioLower
  \/ CallGpioUpper
  \/ CallSetGpio
  \/ CallConfig
  \/ CallShiftBytesOut
  \/ CallShiftBytesIn
  \/ CallShiftBytes
  \/ CallShiftBitsOut
  \/ CallShiftBitsIn
  \/ CallShiftBits
  \/ CallClockTmsOut
  \/ CallClockTms
  \/ Destruct

SpecBuilder == BuilderInit /\ [][BuilderNext]_vars

(***************************************************************************)
(* SpecChunks: one byte shift of a length around the multiples of          *)
(* MAX_BYTES_SHIFT on an empty builder.                                    *)
(***************************************************************************)
ChunkLens ==
  {0, 1, 2} \cup {k * MAX_BYTES_SHIFT + d : k \in 1..MaxChunks, d \in {-1, 0, 1}}

\* the one byte shift: the builder becomes b, the history records <<name, n>>
ChunkCall(b, name, n) ==
  /\ calls = <<>>
  /\ cmd' = b.cmd
  /\ read_len' = b.read_len
  /\ calls' = <<<<name, n>>>>
  /\ UNCHANGED <<tck_init_value, is_lsb, built, pvars, mvars, xvars>>

ChunksShiftBytesOut ==
  \E n \in ChunkLens : \E data \in {Data(n)} :
    \E b \in {shift_bytes_out(Builder, tck_init_value, is_lsb, data)} :
      ChunkCall(b, "shift_bytes_out", n)

ChunksShiftBytesIn ==
  \E n \in ChunkLens :
    \E b \in {shift_bytes_in(Builder, tck_init_value, is_lsb, n)} :
      ChunkCall(b, "shift_bytes_in", n)

ChunksShiftBytes ==
  \E n \in ChunkLens : \E data \in {Data(n)} :
    \E b \in {shift_bytes(Builder, tck_init_value, is_lsb, data)} :
      ChunkCall(b, "shift_bytes", n)

ChunksNext ==
  \/ ChunksShiftBytesOut
  \/ ChunksShiftBytesIn
  \/ ChunksShiftBytes

SpecChunks == BuilderInit /\ [][ChunksNext]_vars

(***************************************************************************)
(* SpecShiftCmd: at most MaxShiftCmds opcodes are constructed, each by     *)
(* MpsseShiftCmd::shift, ::_tms_shift or ::tms_shift on any arguments.     *)
(* outcome records each construction as [call, run]: the constructor with  *)
(* its arguments, and what it returned ("Ok" with the byte, or "panic").   *)
(***************************************************************************)
ShiftCmdInit ==
  /\ cmd = <<>>
  /\ read_len = 0
  /\ tck_init_value = FALSE
  /\ is_lsb = FALSE
  /\ calls = <<>>
  /\ built = <<>>
  /\ PinsIdle
  /\ MutexIdle
  /\ TransactionIdle

\* what a constructor returned
Constructed(byte) ==
  IF byte = AssertFailed THEN [res |-> "panic", byte |-> <<>>]
  ELSE [res |-> "Ok", byte |-> <<byte>>]

\* one construction: outcome records the call and what it returned
Construction(call, byte) ==
  /\ Len(outcome) < MaxShiftCmds
  /\ outcome' = Append(outcome, [call |-> call, run |-> Constructed(byte)])
  /\ UNCHANGED <<bvars, pvars, mvars, i2c, spi, swd, jtag, usb>>

ShiftCmdShift ==
  \E tck \in BOOLEAN, bit_mode \in BOOLEAN, lsb \in BOOLEAN,
     tdi_write \in BOOLEAN, tdo_read \in BOOLEAN :
    Construction([op |-> "shift", tck_init_value |-> tck,
                  is_bit_mode |-> bit_mode, is_lsb |-> lsb,
                  is_tdi_write |-> tdi_write, is_tdo_read |-> tdo_read],
                 shift(tck, bit_mode, lsb, tdi_write, tdo_read))

ShiftCmdTmsShift_ ==
  \E tck \in BOOLEAN, tdo_neg_read \in BOOLEAN, tdo_read \in BOOLEAN :
    Construction([op |-> "_tms_shift", tck_init_value |-> tck,
                  tdo_neg_read |-> tdo_neg_read, tdo_read |-> tdo_read],
                 tms_shift_(tck, tdo_neg_read, tdo_read))

ShiftCmdTmsShift ==
  \E tdo_read \in BOOLEAN :
    Construction([op |-> "tms_shift", tdo_read |-> tdo_read],
                 tms_shift(tdo_read))

ShiftCmdNext ==
  \/ ShiftCmdShift
  \/ ShiftCmdTmsShift_
  \/ ShiftCmdTmsShift

SpecShiftCmd == ShiftCmdInit /\ [][ShiftCmdNext]_vars

(***************************************************************************)
(* SpecFrequency: set_frequency is called once on a freshly opened         *)
(* controller of any chip.  outcome records the call as [call, run]: the   *)
(* frequency asked for and what the call returned; the command written     *)
(* stays in mtx.ft.sent.                                                   *)
(***************************************************************************)
\* the chips FtdiMpsse::open accepts, each on its interface A
Chips == {"FT2232D", "FT232H", "FT2232H", "FT4232H"}

\* the frequencies asked for: 0, the neighbourhood of max_frequency / 65536
\* and of max_frequency / k for both clock bases, and values beyond both
Frequencies ==
  {0, 1, 2, 100000, 150000, 400000, 7000000, 2147483647}
    \cup {max \div 65536 + d : max \in {6000000, 30000000}, d \in {-1, 0, 1, 2}}
    \cup {max \div k + d : max \in {6000000, 30000000},
                           k \in {1, 2, 3, 7, 65535}, d \in {-1, 0, 1}}

FrequencyInit ==
  /\ \E c \in Chips : mtx = open(c, "A")
  /\ handles = EmptyBag
  /\ result = <<"Ok">>
  /\ BuilderIdle
  /\ MutexIdle
  /\ TransactionIdle

\* FtdiMpsse::set_frequency
SetFrequency ==
  \E frequency_hz \in Frequencies :
    /\ outcome = <<>>
    /\ mtx' = set_frequency(mtx, frequency_hz)
    /\ outcome' = <<[call |-> [op |-> "set_frequency", frequency_hz |-> frequency_hz],
                     run |-> [res |-> <<"Ok", set_frequency_returned(mtx, frequency_hz)>>]]>>
    /\ UNCHANGED <<bvars, mvars, handles, result, i2c, spi, swd, jtag, usb>>

FrequencyNext == SetFrequency

SpecFrequency == FrequencyInit /\ [][FrequencyNext]_vars

(***************************************************************************)
(* FtdiContext::write_read (ftdaye.rs).  A run of one call is the record   *)
(* [read, read_len, device, received, fail, res]: the caller's buffer and  *)
(* the read future's read_len, the bulk-in packets the device has ready    *)
(* and the ones bulk_in has returned, oldest first, which transfer the     *)
(* transport refuses ("None", "bulk_out" or "bulk_in", the first one), and *)
(* res, <<"Running">> until the call returns or panics.  The write future  *)
(* sends the command in chunks of max_packet_size; of it only the outcome  *)
(* matters here.  block_on(zip(write, read)) completes both futures and    *)
(* returns the write error first.                                          *)
(***************************************************************************)
\* what write_read returns once the read future has ended with read_res
zipped(st, read_res) ==
  [st EXCEPT !.res = IF st.fail = "bulk_out" THEN <<"Usb">> ELSE read_res]

\* `while read_len < read.len()`: the read future ends with Ok when the
\* condition fails
while_read_len(st) ==
  IF st.res = <<"Running">> /\ ~(st.read_len < Len(st.read))
  THEN zipped(st, <<"Ok">>) ELSE st

\* the call, up to its first bulk_in
write_read_begin(read, device, fail) ==
  while_read_len([read |-> read, read_len |-> 0, device |-> device,
                  received |-> <<>>, fail |-> fail, res |-> <<"Running">>])

\* the body of the loop on a packet, with one status byte split off
packet_received_one_status(st, packet) ==
  IF Len(packet) > STATUS_BYTES
  THEN IF packet[1] = BAD_COMMAND
       THEN zipped(st, <<"BadMpsseCommand", packet[2]>>)
       ELSE IF Len(packet) - 1 > Len(st.read) - st.read_len
       THEN [st EXCEPT !.res = <<"panic">>]
       ELSE [st EXCEPT
               !.read = [i \in 1..Len(st.read) |->
                           IF i \in st.read_len + 1..st.read_len + Len(packet) - 1
                           THEN packet[1 + i - st.read_len] ELSE st.read[i]],
               !.read_len = st.read_len + Len(packet) - 1]
  ELSE st

\* the body of the loop on the packet that bulk_in returned (`result`):
\* split_at(2), the test of status[0], and copy_from_slice into
\* read[read_len .. read_len + data.len()], whose split_at_mut panics when
\* the packet holds more than the buffer has room for
packet_received(st, packet) ==
  IF Len(packet) > STATUS_BYTES
  THEN IF packet[1] = BAD_COMMAND
       THEN zipped(st, <<"BadMpsseCommand", packet[2]>>)
       ELSE IF Len(packet) - STATUS_BYTES > Len(st.read) - st.read_len
       THEN [st EXCEPT !.res = <<"panic">>]
       ELSE [st EXCEPT
               !.read = [i \in 1..Len(st.read) |->
                           IF i \in st.read_len + 1..
                                    st.read_len + Len(packet) - STATUS_BYTES
                           THEN packet[STATUS_BYTES + i - st.read_len]
                           ELSE st.read[i]],
               !.read_len = st.read_len + Len(packet) - STATUS_BYTES]
  ELSE st

\* one turn of the loop: bulk_in returns the device's next packet, or the
\* transport error
bulk_in(st) ==
  IF st.fail = "bulk_in" /\ st.received = <<>>
  THEN zipped(st, <<"Usb">>)
  ELSE while_read_len(
         packet_received([st EXCEPT !.device = Tail(@),
                                    !.received = Append(@, Head(st.device))],
                         Head(st.device)))

(***************************************************************************)
(* SpecTransport: one write_read, against a device that has up to          *)
(* MaxPackets bulk-in packets ready.                                       *)
(***************************************************************************)
\* the shapes of a packet: nothing, one byte, or two status bytes (the
\* modem status or a bad-command report) and a payload
PacketKinds ==
  {<<"empty", 0>>, <<"short", 0>>}
    \cup ({"status", "bad"} \X (0..MaxRead))

\* the k-th packet of the device: its payload bytes are 16 * k + 1, ...; the
\* modem and line status bytes are 0x32, 0x60, the rejected opcode 0xAB
Packet(k, kind) ==
  CASE kind[1] = "empty" -> <<>>
    [] kind[1] = "short" -> <<50>>
    [] kind[1] = "status" -> <<50, 96>> \o [j \in 1..kind[2] |-> 16 * k + j]
    [] kind[1] = "bad" -> <<BAD_COMMAND, 171>> \o [j \in 1..kind[2] |-> 16 * k + j]

TransportInit ==
  /\ TransactionIdle
  /\ BuilderIdle
  /\ PinsIdle
  /\ MutexIdle

\* FtdiContext::write_read is called with a zeroed buffer of n bytes
UsbWriteRead ==
  \E n \in 0..MaxRead, c \in 0..MaxPackets,
     fail \in {"None", "bulk_out", "bulk_in"} :
    \E kinds \in [1..c -> PacketKinds] :
      /\ usb = <<>>
      /\ usb' = write_read_begin([i \in 1..n |-> 0],
                                 [k \in 1..c |-> Packet(k, kinds[k])], fail)
      /\ UNCHANGED <<bvars, pvars, mvars, i2c, spi, swd, jtag, outcome>>

\* a bulk_in of the read future completes
UsbBulkIn ==
  /\ usb # <<>>
  /\ usb.res = <<"Running">>
  /\ usb.device # <<>> \/ (usb.fail = "bulk_in" /\ usb.received = <<>>)
  /\ usb' = bulk_in(usb)
  /\ UNCHANGED <<bvars, pvars, mvars, i2c, spi, swd, jtag, outcome>>

TransportNext ==
  \/ UsbWriteRead
  \/ UsbBulkIn

SpecTransport == TransportInit /\ [][TransportNext]_vars

(***************************************************************************)
(* SpecPins: handles are constructed, used and dropped on one controller,  *)
(* one operation at a time.                                                *)
(***************************************************************************)
\* the pins GPIO handles are asked for, Lower(8) being out of range
GpioPins == {Lower(0), Upper(0), Lower(8)}

\* the pins set_direction_pin is given
DirectionPins == {Upper(0)}

\* the chip and channel FtdiMpsse::open is given: an MPSSE channel with an
\* upper bank, one without, and a channel that is not MPSSE-capable
Channels == {<<"FT232H", "A">>, <<"FT4232H", "B">>, <<"FT4232H", "C">>}

PinsInit ==
  /\ \E c \in Channels : c[2] \in interface_list(c[1]) /\ mtx = open(c[1], c[2])
  /\ handles = EmptyBag
  /\ result = <<"Ok">>
  /\ BuilderIdle
  /\ MutexIdle
  /\ TransactionIdle

\* the guard is dropped at the end of an operation: the exchanges are over
Unlock(m) == [m EXCEPT !.ft.sent = <<>>]

\* the end of a constructor: the controller is left as m, and the handle h
\* exists if the constructor returned Ok
Construct(op, m, res, h) ==
  /\ BagCardinality(handles) < MaxHandles
  /\ mtx' = Unlock(m)
  /\ result' = res
  /\ handles' = IF res[1] = "Ok" THEN handles (+) SetToBag({h}) ELSE handles
  /\ UNCHANGED <<bvars, mvars, xvars>>

\* the end of an operation on the handle s, which becomes h
Operate(op, m, s, h) ==
  /\ mtx' = Unlock(m)
  /\ result' = <<"Ok">>
  /\ handles' = (handles (-) SetToBag({s})) (+) SetToBag({h})
  /\ UNCHANGED <<bvars, mvars, xvars>>

\* the end of the Drop of the handle s
Dropped(m, s) ==
  /\ mtx' = Unlock(m)
  /\ result' = <<"Ok">>
  /\ handles' = handles (-) SetToBag({s})
  /\ UNCHANGED <<bvars, mvars, xvars>>

\* FtdiOutputPin::new
NewOutputPin ==
  \E pin \in GpioPins :
    LET u == UsedPins(mtx, <<pin>>, "Output", <<>>)
        m1 == [u.m EXCEPT ![pin[1]].direction = Or8(@, mask(pin))]
    IN Construct("FtdiOutputPin::new",
                 IF u.res[1] = "Ok" THEN set_bank(m1, pin[1]) ELSE u.m, u.res,
                 [kind |-> "FtdiOutputPin", pins |-> <<pin>>, owned |-> {pin}])

\* FtdiInputPin::new, which allocates with PinUse::Output as the source does
NewInputPin ==
  \E pin \in GpioPins :
    LET u == UsedPins(mtx, <<pin>>, "Output", <<>>)
        m1 == [u.m EXCEPT ![pin[1]].direction = And8(@, Not8(mask(pin)))]
    IN Construct("FtdiInputPin::new",
                 IF u.res[1] = "Ok" THEN set_bank(m1, pin[1]) ELSE u.m, u.res,
                 [kind |-> "FtdiInputPin", pins |-> <<pin>>, owned |-> {pin}])

\* FtdiOutputPin::set
OutputSet ==
  \E s \in BagToSet(handles), state \in BOOLEAN :
    /\ s.kind = "FtdiOutputPin"
    /\ LET pin == s.pins[1]
           m1 == [mtx EXCEPT ![pin[1]].value =
                    IF state THEN Or8(@, mask(pin)) ELSE And8(@, Not8(mask(pin)))]
       IN Operate("FtdiOutputPin::set", set_bank(m1, pin[1]), s, s)

\* FtdiSpi::new; FtdiSpiHalfduplex::new is the same code
NewSpi ==
  LET new == FtdiSpi_new(mtx, "FtdiSpi")
  IN Construct("FtdiSpi::new", new.m, new.res,
               [kind |-> "FtdiSpi", pins |-> SpiPins,
                owned |-> {SpiPins[i] : i \in 1..3}])

\* FtdiSpi::set_mode with MODE_0 or MODE_2
SpiSetMode ==
  \E s \in BagToSet(handles), mode \in {0, 2} :
    /\ s.kind = "FtdiSpi"
    /\ LET m1 == [mtx EXCEPT !.lower.value =
                    IF mode = 0 THEN And8(@, Not8(SCK_MASK)) ELSE Or8(@, SCK_MASK)]
       IN Operate("set_mode", set_bank(m1, "lower"), s, s)

\* FtdiSpiDevice::new
NewSpiDevice ==
  LET new == FtdiSpiDevice_new(mtx)
  IN Construct("FtdiSpiDevice::new", new.m, new.res,
               [kind |-> "FtdiSpiDevice", pins |-> SpiDevicePins,
                owned |-> {SpiDevicePins[i] : i \in 1..4}])

\* FtdiI2c::new
NewI2c ==
  LET new == FtdiI2c_new(mtx)
  IN Construct("FtdiI2c::new", new.m, <<"Ok">>,
               [kind |-> "FtdiI2c", pins |-> I2cPins, owned |-> new.owned])

\* FtdiSwd::new
NewSwd ==
  LET pins == <<Lower(0), Lower(1), Lower(2)>>
      a == alloc_pins_unchecked(mtx, pins, "Swd")
  IN Construct("FtdiSwd::new", a.m, <<"Ok">>,
               [kind |-> "FtdiSwd", pins |-> pins, owned |-> a.owned])

\* FtdiJtag::new
NewJtag ==
  LET pins == <<Lower(0), Lower(1), Lower(2), Lower(3)>>
      a == alloc_pins_unchecked(mtx, pins, "Jtag")
      m1 == [a.m EXCEPT !.lower.direction = Or8(@, TCK_MASK + TDI_MASK + TMS_MASK)]
  IN Construct("FtdiJtag::new", set_bank(m1, "lower"), <<"Ok">>,
               [kind |-> "FtdiJtag", pins |-> pins, owned |-> a.owned])

\* FtdiI2c::set_direction_pin and FtdiSwd::set_direction_pin: pins[4] is the
\* handle's direction_pin when it has one
SetDirectionPin ==
  \E s \in BagToSet(handles), pin \in DirectionPins :
    /\ s.kind \in {"FtdiI2c", "FtdiSwd"}
    /\ LET h == s
           has == Len(h.pins) = 4
           a == set_direction_pin(mtx, IF has THEN <<h.pins[4]>> ELSE <<>>, pin,
                                  IF h.kind = "FtdiI2c" THEN "I2c" ELSE "Swd")
       IN Operate("set_direction_pin", a.m, s,
                  [h EXCEPT !.pins = SubSeq(h.pins, 1, 3) \o <<pin>>,
                            !.owned = (@ \ (IF has THEN {h.pins[4]} ELSE {}))
                                      \cup (IF a.res[1] = "Ok" THEN {pin} ELSE {})])

\* The Drop of a handle: impl Drop for UsedPin for each UsedPin of a GPIO or
\* SPI handle, impl Drop for FtdiSwd, impl Drop for FtdiJtag (adaptive
\* clocking is never switched on here, so its adaptive_clock(false) returns at
\* once) and impl Drop for FtdiI2c, which first switches 3-phase clocking off.
drop(m, h) ==
  free_pins(IF h.kind = "FtdiI2c"
            THEN exec(m, enable_3phase_data_clocking(NewBuilder, FALSE))
            ELSE m, h.pins)

Drop ==
  \E s \in BagToSet(handles) : Dropped(drop(mtx, s), s)

PinsNext ==
  \/ NewOutputPin
  \/ NewInputPin
  \/ OutputSet
  \/ NewSpi
  \/ SpiSetMode
  \/ NewSpiDevice
  \/ NewI2c
  \/ NewSwd
  \/ NewJtag
  \/ SetDirectionPin
  \/ Drop

SpecPins == PinsInit /\ [][PinsNext]_vars

(***************************************************************************)
(* SpecMutex: threads run operations of handles that share one controller. *)
(* An operation is the sequence of its steps: "lock" is mtx.lock(), "exec" *)
(* one exchange through the guard (FtdiMpsse::exec, or write_read of the   *)
(* older callers), "unlock" the drop of the guard.                         *)
(***************************************************************************)
Programs ==
  { <<"lock", "exec", "unlock">>,            \* FtdiOutputPin::set, SpiBus::write
    <<"lock", "exec", "exec", "unlock">>,                   \* FtdiSwd::read
    <<"lock", "exec", "exec", "exec", "unlock">>,           \* FtdiI2c::transaction
    <<"lock", "exec", "exec", "unlock", "lock", "exec", "unlock">> }
                                                            \* FtdiJtag::scan_with

\* Mutex::lock returns at once for a thread that does not check the holder
try_lock_unchecked(g) == TRUE

\* Mutex::lock returns when no thread holds the guard
try_lock(g) == g = 0

MutexInit ==
  /\ MutexIdle
  /\ BuilderIdle
  /\ PinsIdle
  /\ TransactionIdle

\* the step the thread t is at
AtStep(t, step) ==
  /\ threads[t].pc > 0
  /\ threads[t].prog[threads[t].pc] = step

\* the thread t is past its step: to the next one, or done after the last
Advance(t) ==
  /\ threads' = [threads EXCEPT ![t].pc =
                   IF @ = Len(threads[t].prog) THEN 0 ELSE @ + 1]
  /\ UNCHANGED <<bvars, pvars, xvars>>

\* a thread calls an operation of a handle
CallOperation ==
  \E t \in 1..MaxThreads, prog \in Programs :
    /\ threads[t].pc = 0
    /\ threads' = [threads EXCEPT ![t] = [prog |-> prog, pc |-> 1]]
    /\ UNCHANGED <<guard, in_flight, reader, bvars, pvars, xvars>>

\* let lock = self.mtx.lock().unwrap()
Lock ==
  \E t \in 1..MaxThreads :
    /\ AtStep(t, "lock")
    /\ try_lock(guard)
    /\ guard' = t
    /\ Advance(t)
    /\ UNCHANGED <<in_flight, reader>>

\* FtdiContext::write_read, the bulk-out half: the command goes to the device
ExecWrite ==
  \E t \in 1..MaxThreads :
    /\ AtStep(t, "exec")
    /\ \A i \in 1..Len(in_flight) : in_flight[i] # t
    /\ in_flight' = Append(in_flight, t)
    /\ UNCHANGED <<guard, threads, reader, bvars, pvars, xvars>>

\* FtdiContext::write_read, the bulk-in half: the thread takes the oldest
\* response the device holds
ExecRead ==
  \E t \in 1..MaxThreads :
    /\ AtStep(t, "exec")
    /\ \E i \in 1..Len(in_flight) : in_flight[i] = t
    /\ reader' = <<t, Head(in_flight)>>
    /\ in_flight' = Tail(in_flight)
    /\ Advance(t)
    /\ UNCHANGED guard

\* the guard goes out of scope, or drop(lock)
Release ==
  \E t \in 1..MaxThreads :
    /\ AtStep(t, "unlock")
    /\ guard' = IF guard = t THEN 0 ELSE guard
    /\ Advance(t)
    /\ UNCHANGED <<in_flight, reader>>

MutexNext ==
  \/ CallOperation
  \/ Lock
  \/ ExecWrite
  \/ ExecRead
  \/ Release

SpecMutex == MutexInit /\ [][MutexNext]_vars

(***************************************************************************)
(* C4: one exchange in flight.                                             *)
(***************************************************************************)
\* C4: with any number of threads using handles that share one controller, at
\* most one MPSSE exchange is in flight on the controller at any time (the
\* commands and responses of two exchanges never overlap), and every response
\* is read by the thread that issued the matching command.
C4_OneExchangeInFlight ==
  /\ Len(in_flight) <= 1
  /\ reader[1] = reader[2]
  /\ \A t \in 1..MaxThreads : AtStep(t, "exec") => guard = t

\* one thread has its exchange in flight while another waits for the guard
C4_Witness ==
  \E t, u \in 1..MaxThreads :
    /\ t # u
    /\ in_flight = <<t>>
    /\ AtStep(u, "lock")
    /\ reader = <<u, u>>

(***************************************************************************)
(* The I2C bus as the opcodes of a run drive it.  A set-bank of the lower  *)
(* byte puts SCL and SDA at the levels of bits 0 and 1 where it makes them *)
(* outputs and lets the pull-up hold a line it makes an input; SDA falling *)
(* while SCL stays high is a START, SDA rising while SCL stays high a      *)
(* STOP.  A bit shift clocks SCL from low and back: eight bits out are a   *)
(* byte on the wire, one bit out the master's ACK (0) or NACK, eight bits  *)
(* in a byte read and one bit in the slave's ACK bit, both taken from the  *)
(* response.  The bus starts idle.                                         *)
(***************************************************************************)
\* the opcodes of all the exchanges of a run, in order
RECURSIVE WireOps(_)
WireOps(wire) ==
  IF wire = <<>> THEN <<>> ELSE Decode(Head(wire).cmd) \o WireOps(Tail(wire))

RECURSIVE WireResponses(_)
WireResponses(wire) ==
  IF wire = <<>> THEN <<>> ELSE Head(wire).response \o WireResponses(Tail(wire))

\* the levels of <<SCL, SDA>> after the first i opcodes
RECURSIVE Levels(_, _)
Levels(ops, i) ==
  IF i = 0 THEN <<1, 1>>
  ELSE IF ops[i][1] = SetDataBitsLowbyte
  THEN <<IF Bit(ops[i][3], 0) = 1 THEN Bit(ops[i][2], 0) ELSE 1,
         IF Bit(ops[i][3], 1) = 1 THEN Bit(ops[i][2], 1) ELSE 1>>
  ELSE Levels(ops, i - 1)

\* what an opcode puts on the bus, <<>> or <<the event>>: was and now are the
\* levels before and after it, byte the response byte of an opcode that reads
BusEvent(op, was, now, byte) ==
  IF op[1] = SetDataBitsLowbyte
  THEN IF was = <<1, 1>> /\ now = <<1, 0>> THEN <<(<<"S">>)>>
       ELSE IF was = <<1, 0>> /\ now = <<1, 1>> THEN <<(<<"P">>)>>
       ELSE <<>>
  ELSE IF op[1] < 128 /\ Bit(op[1], 5) = 1
  THEN IF op[2] + 1 = DATA_BITS THEN <<(<<"R", byte>>)>>
       ELSE <<(<<"a", And8(byte, 1)>>)>>
  ELSE IF op[1] < 128 /\ Bit(op[1], 4) = 1
  THEN IF op[2] + 1 = DATA_BITS THEN <<(<<"W", op[3]>>)>> ELSE <<(<<"A", op[3]>>)>>
  ELSE <<>>

\* the events of the opcodes ops in order, with the levels the bus is left at
BusOf(ops, response) ==
  LET reads == SelectSeq([i \in 1..Len(ops) |-> i],
                         LAMBDA i : ops[i][1] < 128 /\ Bit(ops[i][1], 5) = 1)
      byte(i) == IF \E k \in 1..Len(reads) : reads[k] = i
                 THEN response[CHOOSE k \in 1..Len(reads) : reads[k] = i]
                 ELSE 0
      some == SelectSeq([i \in 1..Len(ops) |->
                           BusEvent(ops[i], Levels(ops, i - 1), Levels(ops, i), byte(i))],
                        LAMBDA e : e # <<>>)
  IN [events |-> [i \in 1..Len(some) |-> some[i][1]],
      scl |-> Levels(ops, Len(ops))[1], sda |-> Levels(ops, Len(ops))[2]]

(***************************************************************************)
(* SpecI2c: one FtdiI2c handle on an FT232H is configured and then makes   *)
(* one transaction.  start_stop_cmds is set to lengths of at least one     *)
(* opcode per level: the setter takes any usize, and with 0 the start,     *)
(* restart and end of the command builder emit nothing at all.             *)
(***************************************************************************)
StartStopLens == {1, 3}

\* 0x53: the address byte is 0xA6 for a write and 0xA7 for a read
Addresses == {83}

BufLens == {0, 1, 2}

Operations ==
  {[kind |-> "Read", buf |-> [i \in 1..n |-> 170]] : n \in BufLens}
    \cup {[kind |-> "Write", buf |-> SubSeq(<<165, 60>>, 1, n)] : n \in BufLens}

OperationLists == UNION {[1..n -> Operations] : n \in 0..MaxOps}

\* the phases a transaction of these operations has when nothing aborts it
Phases(operations) ==
  fast_emit([start_stop_cmds |-> 0], [address |-> 0, operations |-> operations],
            I2cCmdBuilder(open("FT232H", "A"), <<>>), 1, FALSE).read_len

\* what a call meets: a slave that NACKs up to two of the phases, or a
\* slave that ACKs them all and a transport that refuses the second exchange
Environments(operations) ==
  {[nacks |-> S, fail |-> 0] :
     S \in {S \in SUBSET (1..Phases(operations)) : Cardinality(S) <= 2}}
    \cup {[nacks |-> {}, fail |-> 2]}

I2cInit ==
  /\ mtx = Unlock(FtdiI2c_new(open("FT232H", "A")).m)
  /\ handles = SetToBag({[kind |-> "FtdiI2c", pins |-> I2cPins,
                          owned |-> {I2cPins[i] : i \in 1..3}]})
  /\ result = <<"Ok">>
  /\ i2c = [start_stop_cmds |-> 3, direction_pin |-> <<>>, enable_fast |-> FALSE]
  /\ spi = <<>>
  /\ swd = <<>>
  /\ jtag = <<>>
  /\ usb = <<>>
  /\ outcome = <<>>
  /\ BuilderIdle
  /\ MutexIdle

\* FtdiI2c::set_stop_start_len
I2cSetStopStartLen ==
  \E start_stop_cmds \in StartStopLens :
    /\ outcome = <<>>
    /\ i2c' = [i2c EXCEPT !.start_stop_cmds = start_stop_cmds]
    /\ UNCHANGED <<spi, swd, jtag, usb, outcome, bvars, pvars, mvars>>

\* FtdiI2c::enable_fast
I2cEnableFast ==
  \E enable \in BOOLEAN :
    /\ outcome = <<>>
    /\ i2c' = [i2c EXCEPT !.enable_fast = enable]
    /\ UNCHANGED <<spi, swd, jtag, usb, outcome, bvars, pvars, mvars>>

\* FtdiI2c::set_direction_pin
I2cSetDirectionPin ==
  \E pin \in DirectionPins :
    /\ outcome = <<>>
    /\ mtx' = Unlock(set_direction_pin(mtx, i2c.direction_pin, pin, "I2c").m)
    /\ i2c' = [i2c EXCEPT !.direction_pin = <<pin>>]
    /\ UNCHANGED <<spi, swd, jtag, usb, outcome, handles, result, bvars, mvars>>

\* the call returns: the guard is dropped and the caller has the result
Return(call, run, ops) ==
  /\ outcome' = <<[call |-> call, run |-> run,
                   bus |-> BusOf(ops, WireResponses(run.wire))]>>
  /\ mtx' = [mtx EXCEPT !.ft = Banks(@, ops)]
  /\ UNCHANGED <<i2c, spi, swd, jtag, usb, handles, result, bvars, mvars>>

\* <I2c for FtdiI2c>::transaction, which takes the serial or the fast path
Returned(call, run) == Return(call, run, WireOps(run.wire))

Transaction(call) ==
  Returned(call, IF i2c.enable_fast THEN transaction_fast(i2c, mtx, call)
                 ELSE transaction(i2c, mtx, call))

I2cTransaction ==
  \E address \in Addresses, operations \in OperationLists :
    \E env \in Environments(operations) :
      /\ outcome = <<>>
      /\ Transaction([address |-> address, operations |-> operations,
                      nacks |-> env.nacks, fail |-> env.fail])

I2cNext ==
  \/ I2cSetStopStartLen
  \/ I2cEnableFast
  \/ I2cSetDirectionPin
  \/ I2cTransaction

SpecI2c == I2cInit /\ [][I2cNext]_vars

(***************************************************************************)
(* SpecSpi: one FtdiSpiDevice on an FT232H makes one transaction.  A run   *)
(* that ends "Panic" is a panic inside the transaction, which unwinds      *)
(* through the MutexGuard.                                                 *)
(***************************************************************************)
\* the operations by kind and buffer lengths; the words to write are filled
\* in by Words
SpiOperations ==
  {[kind |-> "Read", read |-> [k \in 1..n |-> 170], write |-> <<>>] : n \in BufLens}
    \cup {[kind |-> "Write", read |-> <<>>, write |-> [k \in 1..n |-> 0]] :
            n \in BufLens}
    \cup {[kind |-> "Transfer", read |-> [k \in 1..n |-> 170],
           write |-> [k \in 1..w |-> 0]] : n \in BufLens, w \in BufLens}
    \cup {[kind |-> "TransferInPlace", read |-> [k \in 1..n |-> 0],
           write |-> [k \in 1..n |-> 0]] : n \in BufLens}
    \cup {[kind |-> "DelayNs", read |-> <<>>, write |-> <<>>]}

\* the number of words the operations before the i-th write
RECURSIVE WrittenBefore(_, _)
WrittenBefore(operations, i) ==
  IF i <= 1 THEN 0
  ELSE WrittenBefore(operations, i - 1) + Len(operations[i - 1].write)

\* the operations writing consecutive slices of one pattern, as
\* examples/spi_loopback.rs passes &data[0..16635] and &data[16635..max]
Words(operations) ==
  [i \in 1..Len(operations) |->
     LET data == [k \in 1..Len(operations[i].write) |->
                    Data(WrittenBefore(operations, i) + k)
                      [WrittenBefore(operations, i) + k]]
     IN [operations[i] EXCEPT
           !.write = data,
           !.read = IF operations[i].kind = "TransferInPlace" THEN data ELSE @]]

SpiOperationLists == UNION {[1..n -> SpiOperations] : n \in 0..MaxOps}

\* what a call meets: a slave on MISO, MISO wired to MOSI (a batch with a
\* Read, during which the level of MOSI is not the caller's, is not run that
\* way), or a transport that refuses the exchange
SpiEnvironments(operations) ==
  {[loopback |-> FALSE, fail |-> FALSE], [loopback |-> FALSE, fail |-> TRUE]}
    \cup (IF \E i \in 1..Len(operations) : operations[i].kind = "Read" THEN {}
          ELSE {[loopback |-> TRUE, fail |-> FALSE]})

SpiDevice == FtdiSpiDevice_new(open("FT232H", "A"))

SpiInit ==
  /\ mtx = Unlock(SpiDevice.m)
  /\ handles = SetToBag({[kind |-> "FtdiSpiDevice", pins |-> SpiDevicePins,
                          owned |-> {SpiDevicePins[i] : i \in 1..4}]})
  /\ result = <<"Ok">>
  /\ i2c = <<>>
  /\ spi = <<>>
  /\ swd = <<>>
  /\ jtag = <<>>
  /\ usb = <<>>
  /\ outcome = <<>>
  /\ BuilderIdle
  /\ MutexIdle

\* <SpiDevice<u8> for FtdiSpiDevice>::transaction
SpiDeviceTransaction ==
  \E operations \in SpiOperationLists :
    \E env \in SpiEnvironments(operations) :
      LET call == [operations |-> Words(operations), loopback |-> env.loopback,
                   fail |-> env.fail]
      IN /\ outcome = <<>>
         /\ outcome' = <<[call |-> call,
                          run |-> spi_transaction(SpiDevice.self, mtx, call)]>>
         /\ mtx' = IF call.fail THEN mtx
                   ELSE Unlock(exec(mtx, spi_command(SpiDevice.self, mtx,
                                                     call.operations)))
         /\ UNCHANGED <<i2c, spi, swd, jtag, usb, handles, result, bvars, mvars>>

SpecSpi == SpiInit /\ [][SpiDeviceTransaction]_vars

(***************************************************************************)
(* SpecSpiBus: one SPI bus, an FtdiSpi or an FtdiSpiHalfduplex, on an      *)
(* FT232H is configured and used.  outcome is the last call and its run:   *)
(* what it returned, the exchanges it made and the buffer it left.         *)
(***************************************************************************)
SpiBusKinds == {"FtdiSpi", "FtdiSpiHalfduplex"}

SpiBusInit ==
  /\ \E kind \in SpiBusKinds :
       spi = FtdiSpi_new(open("FT232H", "A"), kind).self
  /\ mtx = Unlock(FtdiSpi_new(open("FT232H", "A"), "FtdiSpi").m)
  /\ handles = SetToBag({[kind |-> "FtdiSpi", pins |-> SpiPins,
                          owned |-> {SpiPins[i] : i \in 1..3}]})
  /\ result = <<"Ok">>
  /\ i2c = <<>>
  /\ swd = <<>>
  /\ jtag = <<>>
  /\ usb = <<>>
  /\ outcome = <<>>
  /\ BuilderIdle
  /\ MutexIdle

\* the end of a call on the bus
SpiBusReturn(call, self, m, run) ==
  /\ spi' = self
  /\ mtx' = Unlock(m)
  /\ outcome' = <<[call |-> call, run |-> run]>>
  /\ UNCHANGED <<i2c, swd, jtag, usb, handles, result, bvars, mvars>>

\* set_mode
SpiBusSetMode ==
  \E mode \in 0..3, lsb \in BOOLEAN, fail \in BOOLEAN :
    SpiBusReturn([op |-> "set_mode", mode |-> mode, is_lsb |-> lsb, fail |-> fail],
                 spi_set_mode(spi, mtx, mode, lsb, fail).self,
                 spi_set_mode(spi, mtx, mode, lsb, fail).m,
                 [res |-> spi_set_mode(spi, mtx, mode, lsb, fail).res,
                  sent |-> spi_set_mode(spi, mtx, mode, lsb, fail).m.ft.sent,
                  read |-> <<>>])

\* the calls of the SpiBus operations: buffers of up to MaxLen words
SpiBusCalls ==
  {[op |-> "read", read |-> [k \in 1..n |-> 170], write |-> <<>>, fail |-> f] :
     n \in 0..MaxLen, f \in BOOLEAN}
    \cup {[op |-> "write", read |-> <<>>, write |-> Data(n), fail |-> f] :
            n \in 0..MaxLen, f \in BOOLEAN}
    \cup {[op |-> "transfer_in_place", read |-> Data(n), write |-> Data(n),
           fail |-> f] : n \in 0..MaxLen, f \in BOOLEAN}
    \cup {[op |-> "transfer", read |-> [k \in 1..n |-> 170], write |-> Data(w),
           fail |-> f] : n \in 0..MaxLen, w \in 0..MaxLen, f \in BOOLEAN}
    \cup {[op |-> "flush", read |-> <<>>, write |-> <<>>, fail |-> FALSE]}

\* read, write, flush, transfer_in_place and transfer
SpiBusOperation ==
  \E call \in SpiBusCalls :
    SpiBusReturn(call, spi, spi_bus(spi, mtx, call).m,
                 [res |-> spi_bus(spi, mtx, call).res,
                  sent |-> spi_bus(spi, mtx, call).m.ft.sent,
                  read |-> spi_bus(spi, mtx, call).read])

SpiBusNext ==
  \/ SpiBusSetMode
  \/ SpiBusOperation

SpecSpiBus == SpiBusInit /\ [][SpiBusNext]_vars

(***************************************************************************)
(* SpecSwd: one FtdiSwd on an FT232H is given a direction pin or not and   *)
(* makes one read or write.                                                *)
(***************************************************************************)
SwdPins == <<Lower(0), Lower(1), Lower(2)>>

SwdAddrs == {<<port, reg>> : port \in {"Dp", "Ap"}, reg \in 0..255}

\* the registers 0x0, 0x8 and 0xC
SomeSwdAddrs == {<<"Dp", 0>>, <<"Dp", 8>>, <<"Ap", 12>>}

\* 0, 1, 0x8000_0000, 0xFFFF_FFFF and 0x1234_5678
SwdValues == {<<0, 0>>, <<0, 1>>, <<32768, 0>>, <<65535, 65535>>, <<4660, 22136>>}

\* a target that answers ack, then data and the parity bit
Target(ack, data, parity) ==
  <<Bit(ack, 0), Bit(ack, 1), Bit(ack, 2)>> \o Bits32(data) \o <<parity>>

\* the reads: every address against a target that answers well, and some
\* addresses against every ACK, data and parity bit and against a transport
\* that refuses one of the exchanges
SwdReads ==
  {[op |-> "read", addr |-> a, value |-> <<0, 0>>,
    target |-> Target(REPONSE_SUCCESS, <<4660, 22136>>, 1), fail |-> 0] :
     a \in SwdAddrs}
    \cup {[op |-> "read", addr |-> a, value |-> <<0, 0>>,
           target |-> Target(ack, data, parity), fail |-> 0] :
            a \in SomeSwdAddrs, ack \in 0..7, data \in SwdValues, parity \in {0, 1}}
    \cup {[op |-> "read", addr |-> <<"Dp", 0>>, value |-> <<0, 0>>,
           target |-> Target(ack, <<0, 1>>, 1), fail |-> f] :
            ack \in {REPONSE_SUCCESS, REPONSE_WAIT}, f \in 1..2}

\* the writes, likewise
SwdWrites ==
  {[op |-> "write", addr |-> a, value |-> <<4660, 22136>>,
    target |-> Target(REPONSE_SUCCESS, <<0, 0>>, 0), fail |-> 0] : a \in SwdAddrs}
    \cup {[op |-> "write", addr |-> a, value |-> v,
           target |-> Target(ack, <<0, 0>>, 0), fail |-> 0] :
            a \in SomeSwdAddrs, ack \in 0..7, v \in SwdValues}
    \cup {[op |-> "write", addr |-> <<"Dp", 0>>, value |-> <<0, 1>>,
           target |-> Target(REPONSE_SUCCESS, <<0, 0>>, 0), fail |-> f] : f \in 1..2}

SwdInit ==
  /\ mtx = Unlock(alloc_pins_unchecked(open("FT232H", "A"), SwdPins, "Swd").m)
  /\ handles = SetToBag({[kind |-> "FtdiSwd", pins |-> SwdPins,
                          owned |-> {SwdPins[i] : i \in 1..3}]})
  /\ result = <<"Ok">>
  /\ swd = [direction_pin |-> <<>>]
  /\ jtag = <<>>
  /\ usb = <<>>
  /\ i2c = <<>>
  /\ spi = <<>>
  /\ outcome = <<>>
  /\ BuilderIdle
  /\ MutexIdle

\* FtdiSwd::set_direction_pin
SwdSetDirectionPin ==
  \E pin \in DirectionPins \cup {Lower(4)} :
    /\ outcome = <<>>
    /\ mtx' = Unlock(set_direction_pin(mtx, swd.direction_pin, pin, "Swd").m)
    /\ swd' = [swd EXCEPT !.direction_pin = <<pin>>]
    /\ UNCHANGED <<i2c, spi, jtag, usb, outcome, handles, result, bvars, mvars>>

\* the call returns: the guard is dropped and the caller has the result
SwdReturn(call, run) ==
  /\ outcome = <<>>
  /\ outcome' = <<[call |-> call, run |-> run]>>
  /\ mtx' = [mtx EXCEPT !.ft = Banks(@, WireOps(run.wire))]
  /\ UNCHANGED <<i2c, spi, swd, jtag, usb, handles, result, bvars, mvars>>

\* FtdiSwd::read
SwdRead == \E call \in SwdReads : SwdReturn(call, swd_read(swd, mtx, call))

\* FtdiSwd::write
SwdWrite == \E call \in SwdWrites : SwdReturn(call, swd_write(swd, mtx, call))

SwdNext ==
  \/ SwdSetDirectionPin
  \/ SwdRead
  \/ SwdWrite

SpecSwd == SwdInit /\ [][SwdNext]_vars

(***************************************************************************)
(* SpecJtagDetect: a chain hangs on lower pins 0 to 3 of an FT232H; a      *)
(* JtagDetectTdi is made for a tested pinout, scans at most twice and is   *)
(* dropped.  outcome holds the scans made by the detector, in order.       *)
(***************************************************************************)
\* 0x3BA0_0477 and 0x0641_3041
IdcodeA == <<"idcode", <<15264, 1143>>>>

IdcodeB == <<"idcode", <<1601, 12353>>>>

Bypass == <<"bypass">>

Chains ==
  {<<IdcodeA>>, <<IdcodeA, IdcodeB>>, <<IdcodeB, IdcodeB, IdcodeA>>,
   <<Bypass, IdcodeA>>, <<IdcodeA, Bypass>>, <<IdcodeB, Bypass, IdcodeA>>,
   <<Bypass>>}

\* the pins the chain is wired to
ChainPins == [tck |-> 0, tdi |-> 1, tdo |-> 2, tms |-> 3]

\* the pinouts tested: TCK and TMS as phase 1 of the detector found them,
\* TDI and TDO right or on a pin nothing is wired to
TestedPinouts ==
  {[tck |-> 0, tdi |-> tdi, tdo |-> tdo, tms |-> 3] : tdi \in {1, 4}, tdo \in {2, 5}}

JtagDetectInit ==
  /\ mtx = Unlock(open("FT232H", "A"))
  /\ handles = EmptyBag
  /\ result = <<"Ok">>
  /\ \E devices \in Chains, pull \in {0, 1},
        tap \in {"TestLogicReset", "ShiftIR", "PauseDR"} :
       jtag = [self |-> <<>>,
               chain |-> [devices |-> devices, pins |-> ChainPins, pull |-> pull,
                          tap |-> tap, dr |-> Captured(devices), tdo |-> pull,
                          tck |-> pull]]
  /\ i2c = <<>>
  /\ spi = <<>>
  /\ swd = <<>>
  /\ usb = <<>>
  /\ outcome = <<>>
  /\ BuilderIdle
  /\ MutexIdle

\* JtagDetectTdi::new
JtagDetectNew ==
  \E pins \in TestedPinouts :
    /\ jtag.self = <<>>
    /\ outcome = <<>>
    /\ LET new == JtagDetectTdi_new(mtx, pins.tck, pins.tdi, pins.tdo, pins.tms)
       IN /\ mtx' = Unlock(new.m)
          /\ jtag' = [jtag EXCEPT !.self = <<new.self>>]
    /\ UNCHANGED <<i2c, spi, swd, usb, outcome, handles, result, bvars, mvars>>

\* JtagDetectTdi::scan_with
JtagDetectScanWith ==
  \E tdi_val \in {0, 1}, fail \in {0, 7} :
    /\ jtag.self # <<>>
    /\ Len(outcome) < 2
    /\ \E call \in {[op |-> "scan_with", tdi_val |-> tdi_val, fail |-> fail]} :
         \E run \in {detect_scan_with(jtag.self[1], mtx, jtag.chain, call)} :
           /\ outcome' = Append(outcome,
                                [call |-> call,
                                 run |-> [res |-> run.res, idcodes |-> run.idcodes,
                                          exchanges |-> Len(run.wire)]])
           /\ jtag' = [jtag EXCEPT !.chain = run.chain]
           /\ mtx' = [mtx EXCEPT !.ft.lower = run.low]
    /\ UNCHANGED <<i2c, spi, swd, usb, handles, result, bvars, mvars>>

\* the opcodes of the commands sent
RECURSIVE SentOps(_)
SentOps(sent) == IF sent = <<>> THEN <<>> ELSE Decode(Head(sent)) \o SentOps(Tail(sent))

\* impl Drop for JtagDetectTdi
JtagDetectDrop ==
  /\ jtag.self # <<>>
  /\ LET self == jtag.self[1]
         m == free_pins(mtx, <<Lower(self.tck), Lower(self.tdi), Lower(self.tdo),
                               Lower(self.tms)>>)
     IN /\ mtx' = Unlock(m)
        /\ jtag' = [self |-> <<>>,
                    chain |-> JtagChain(SentOps(m.ft.sent), jtag.chain,
                                        mtx.ft.lower).chain]
  /\ outcome' = <<>>
  /\ UNCHANGED <<i2c, spi, swd, usb, handles, result, bvars, mvars>>

JtagDetectNext ==
  \/ JtagDetectNew
  \/ JtagDetectScanWith
  \/ JtagDetectDrop

SpecJtagDetect == JtagDetectInit /\ [][JtagDetectNext]_vars

(***************************************************************************)
(* The transaction made, as the claims about it read it.                   *)
(***************************************************************************)
\* the events on the bus with the slave's answers left out
Shape(events) ==
  [k \in 1..Len(events) |->
     IF events[k][1] \in {"a", "R"} THEN <<events[k][1]>> ELSE events[k]]

\* (A << 1) | R
AddressByte(address, is_read) == (2 * address + (IF is_read THEN 1 ELSE 0)) % 256

\* an operation other than the first turns the bus when its direction is not
\* that of the operation before it
Turns(operations, i) == i > 1 /\ operations[i - 1].kind # operations[i].kind

\* what the operations from the i-th on are to put on the bus: the address
\* phase where one is due, after a repeated START when the bus turns, then
\* the bytes, each read byte followed by the master's ACK (NACK after the
\* last) and each written byte by the slave's ACK slot
RECURSIVE OnBus(_, _, _)
OnBus(address, operations, i) ==
  IF i > Len(operations) THEN <<>>
  ELSE LET op == operations[i]
           len == Len(op.buf)
           phase == << <<"W", AddressByte(address, op.kind = "Read")>>, <<"a">> >>
       IN (IF i = 1 THEN phase
           ELSE IF Turns(operations, i) THEN <<(<<"S">>)>> \o phase
           ELSE <<>>)
          \o [k \in 1..(2 * len) |->
                IF op.kind = "Read"
                THEN IF k % 2 = 1 THEN <<"R">>
                     ELSE <<"A", IF k = 2 * len THEN 255 ELSE 0>>
                ELSE IF k % 2 = 1 THEN <<"W", op.buf[(k + 1) \div 2]>> ELSE <<"a">>]
          \o OnBus(address, operations, i + 1)

\* the phases of the operations from the i-th on, in order: <<kind, final>>
\* with kind "addr", "read" or "write" and final true of the last byte of an
\* operation
RECURSIVE PhaseKinds(_, _)
PhaseKinds(operations, i) ==
  IF i > Len(operations) THEN <<>>
  ELSE (IF i = 1 \/ Turns(operations, i) THEN <<(<<"addr", FALSE>>)>> ELSE <<>>)
       \o [k \in 1..Len(operations[i].buf) |->
             <<IF operations[i].kind = "Read" THEN "read" ELSE "write",
               k = Len(operations[i].buf)>>]
       \o PhaseKinds(operations, i + 1)

\* the last n events on the bus
LastEvents(n) ==
  LET ev == outcome[1].bus.events
  IN IF Len(ev) < n THEN <<>> ELSE SubSeq(ev, Len(ev) - n + 1, Len(ev))

Serial == outcome # <<>> /\ ~i2c.enable_fast

Fast == outcome # <<>> /\ i2c.enable_fast

(***************************************************************************)
(* C6: a serial transaction puts on the bus one START, then operation by   *)
(* operation the address phase (address byte (A << 1) | R) before the      *)
(* first operation and, after a repeated START, before every operation     *)
(* that turns the bus, none between operations of one direction, and the   *)
(* bytes; it may break off after any of these, and a transaction that      *)
(* returns Ok has put all of them on the bus and one STOP last.  A STOP is *)
(* never followed by anything.                                             *)
(***************************************************************************)
C6_SerialWireSequence ==
  Serial =>
    LET ev == Shape(outcome[1].bus.events)
        full == <<(<<"S">>)>> \o OnBus(outcome[1].call.address,
                                        outcome[1].call.operations, 1)
        stopped == ev # <<>> /\ ev[Len(ev)] = <<"P">>
        body == IF stopped THEN SubSeq(ev, 1, Len(ev) - 1) ELSE ev
    IN /\ body # <<>>
       /\ Len(body) <= Len(full)
       /\ body = SubSeq(full, 1, Len(body))
       /\ outcome[1].run.res = "Ok" => stopped /\ body = full

\* a write of two bytes and a read of two bytes, which turns the bus
C6_Witness ==
  /\ Serial
  /\ outcome[1].run.res = "Ok"
  /\ Len(outcome[1].call.operations) = 2
  /\ outcome[1].call.operations[1] = [kind |-> "Write", buf |-> <<165, 60>>]
  /\ outcome[1].call.operations[2].kind = "Read"
  /\ Len(outcome[1].call.operations[2].buf) = 2
  /\ Len(outcome[1].bus.events) = 15

(***************************************************************************)
(* C7: in a serial transaction that meets no transport error, an address   *)
(* phase the slave NACKs is the last phase clocked: the address byte and   *)
(* the NACK are followed by STOP alone and the call returns                *)
(* NoAck(Address).  Every transaction that meets no transport error leaves *)
(* SCL and SDA high.                                                       *)
(***************************************************************************)
C7_AddressNackStops ==
  (outcome # <<>> /\ outcome[1].run.res # "Transport") =>
    /\ outcome[1].bus.scl = 1 /\ outcome[1].bus.sda = 1
    /\ And8(mtx.ft.lower[1], SCL + SDA) = SCL + SDA
    /\ And8(mtx.ft.lower[2], SCL + SDA) = SCL + SDA
    /\ Serial =>
         \A k \in outcome[1].call.nacks :
           (/\ k <= outcome[1].run.phase
            /\ PhaseKinds(outcome[1].call.operations, 1)[k][1] = "addr")
           => /\ outcome[1].run.phase = k
              /\ outcome[1].run.res = "NoAckAddress"
              /\ LastEvents(2) = << <<"a", 1>>, <<"P">> >>
              /\ LastEvents(3)[1][1] = "W"

\* the address phase after a repeated START is NACKed
C7_Witness ==
  /\ Serial
  /\ outcome[1].run.res = "NoAckAddress"
  /\ outcome[1].run.phase = 3
  /\ outcome[1].call.nacks = {3}
  /\ LastEvents(4) = << <<"S">>, <<"W", 167>>, <<"a", 1>>, <<"P">> >>

(***************************************************************************)
(* C8: in a serial transaction that meets no transport error, a written    *)
(* data byte the slave NACKs is the last phase clocked when it is not the  *)
(* final byte of its write: the byte and the NACK are followed by STOP     *)
(* alone and the call returns NoAck(Data).  After a NACK on the final byte *)
(* of a write the transaction goes on, or returns Ok when nothing is left; *)
(* and NoAck(Data) is returned for nothing else.                           *)
(***************************************************************************)
C8_DataNackStops ==
  (Serial /\ outcome[1].run.res # "Transport") =>
    LET kinds == PhaseKinds(outcome[1].call.operations, 1)
        run == outcome[1].run
    IN /\ \A k \in outcome[1].call.nacks :
            (k <= run.phase /\ kinds[k][1] = "write")
            => IF kinds[k][2]
               THEN run.phase > k \/ run.res = "Ok"
               ELSE /\ run.phase = k
                    /\ run.res = "NoAckData"
                    /\ LastEvents(2) = << <<"a", 1>>, <<"P">> >>
                    /\ LastEvents(3)[1][1] = "W"
       /\ run.res = "NoAckData"
          => /\ run.phase \in outcome[1].call.nacks
             /\ kinds[run.phase] = <<"write", FALSE>>

\* two writes of two bytes: the NACK on the final byte of the first is
\* accepted, the NACK on the first byte of the second is not
C8_Witness ==
  /\ Serial
  /\ outcome[1].call.nacks = {3, 4}
  /\ Len(outcome[1].call.operations) = 2
  /\ outcome[1].call.operations[1] = [kind |-> "Write", buf |-> <<165, 60>>]
  /\ outcome[1].call.operations[2] = [kind |-> "Write", buf |-> <<165, 60>>]
  /\ outcome[1].run.res = "NoAckData"
  /\ outcome[1].run.phase = 4

(***************************************************************************)
(* C9: a fast transaction that meets no transport error returns what the   *)
(* serial transaction of the same call returns against the same slave, and *)
(* leaves the same bytes in the read buffers; the slots its parser walks   *)
(* over are, in order, the slots its command stream reads: the ACK of an   *)
(* address byte, a byte read, the ACK of a written byte.                   *)
(***************************************************************************)
C9_FastEqualsSerial ==
  (Fast /\ outcome[1].run.res # "Transport") =>
    LET run == outcome[1].run
        serial == transaction(i2c, mtx, outcome[1].call)
        ev == outcome[1].bus.events
        slot(e) == IF ev[e][1] = "R" THEN "read"
                   ELSE IF ev[e - 2] = <<"S">> THEN "addr_ack" ELSE "write_ack"
        read == SelectSeq([e \in 1..Len(ev) |-> e], LAMBDA e : ev[e][1] \in {"a", "R"})
        slots == [n \in 1..Len(read) |-> slot(read[n])]
    IN /\ run.res = serial.res
       /\ run.res \in {"Ok", "NoAckAddress", "NoAckData"}
       /\ run.ops = serial.ops
       /\ Len(run.walk) <= Len(slots)
       /\ run.walk = SubSeq(slots, 1, Len(run.walk))
       /\ run.res = "Ok" => run.walk = slots /\ run.response_idx = Len(slots)

\* a write of two bytes and a read of two bytes, which brings back the bytes
\* of the fifth and sixth phase
C9_Witness ==
  /\ Fast
  /\ outcome[1].run.res = "Ok"
  /\ Len(outcome[1].call.operations) = 2
  /\ outcome[1].call.operations[1] = [kind |-> "Write", buf |-> <<165, 60>>]
  /\ outcome[1].run.ops[2] = [kind |-> "Read", buf |-> <<80, 96>>]
  /\ outcome[1].run.response_idx = 6

(***************************************************************************)
(* C10: a transaction of an FtdiSpiDevice that meets no transport error    *)
(* returns Ok with, in every Read, Transfer and TransferInPlace buffer,    *)
(* the words clocked in during that operation: those of the response from  *)
(* the offset that is the number of words clocked in by the operations     *)
(* before it; and with MISO wired to MOSI a batch of two or more transfers *)
(* returns in every read buffer the words written.  Stated of the batches  *)
(* whose Transfers have a read buffer as long as their words.              *)
(***************************************************************************)
\* the words the i-th operation clocks in
SpiClocks(op) == IF op.kind = "Read" THEN Len(op.read)
                 ELSE IF op.kind \in {"Transfer", "TransferInPlace"} THEN Len(op.write)
                 ELSE 0

RECURSIVE SpiOffset(_, _)
SpiOffset(operations, i) ==
  IF i <= 1 THEN 0
  ELSE SpiOffset(operations, i - 1) + SpiClocks(operations[i - 1])

C10_ScatterInOrder ==
  (/\ outcome # <<>>
   /\ ~outcome[1].call.fail
   /\ \A i \in 1..Len(outcome[1].call.operations) :
        outcome[1].call.operations[i].kind = "Transfer"
        => Len(outcome[1].call.operations[i].read)
             = Len(outcome[1].call.operations[i].write))
  => LET ops == outcome[1].call.operations
         run == outcome[1].run
         transfers == {i \in 1..Len(ops) : ops[i].kind \in {"Transfer", "TransferInPlace"}}
     IN /\ run.res = "Ok"
        /\ \A i \in 1..Len(ops) :
             ops[i].kind \in {"Read", "Transfer", "TransferInPlace"}
             => run.ops[i].read = SubSeq(run.response, SpiOffset(ops, i) + 1,
                                         SpiOffset(ops, i) + SpiClocks(ops[i]))
        /\ (outcome[1].call.loopback /\ Cardinality(transfers) >= 2)
           => \A i \in transfers : run.ops[i].read = ops[i].write

(***************************************************************************)
(* C11: a set_mode of an SPI bus with mode 1 or mode 3 returns the         *)
(* not-supported error, makes no exchange and leaves the controller (with  *)
(* the idle level of SCK in it) and the bus's tck_init_value and is_lsb as *)
(* they were; transfer and transfer_in_place of an FtdiSpiHalfduplex       *)
(* return the not-supported error, make no exchange and leave the          *)
(* controller, the bus and the buffer as they were.                        *)
(***************************************************************************)
C11_Unsupported ==
  \/ /\ outcome'[1].call.op = "set_mode"
     /\ outcome'[1].call.mode \in {1, 3}
  \/ /\ spi.kind = "FtdiSpiHalfduplex"
     /\ outcome'[1].call.op \in {"transfer", "transfer_in_place"}

C11_UnsupportedRejected ==
  [][C11_Unsupported =>
       /\ outcome'[1].run.res = "NotSupported"
       /\ outcome'[1].run.sent = <<>>
       /\ spi' = spi
       /\ mtx' = mtx
       /\ outcome'[1].call.op # "set_mode"
          => outcome'[1].run.read = outcome'[1].call.read]_vars

\* MODE_3 with the other bit order is asked of a bus in MODE_2
C11_Witness ==
  /\ outcome # <<>>
  /\ outcome[1].call.op = "set_mode"
  /\ outcome[1].call.mode = 3
  /\ outcome[1].run.res = "NotSupported"
  /\ spi.tck_init_value
  /\ spi.is_lsb # outcome[1].call.is_lsb
  /\ And8(mtx.lower.value, SCK_MASK) = SCK_MASK

(***************************************************************************)
(* The scans made, as the claims about them read them.                     *)
(***************************************************************************)
\* the detector tests the pins the chain is wired to
RightPinout == jtag.self # <<>> /\ jtag.self[1] = jtag.chain.pins

\* the devices of the chain are k devices with an IDCODE
AllIdcodes == \A i \in 1..Len(jtag.chain.devices) : jtag.chain.devices[i][1] = "idcode"

\* a scan of the chain on the right pins with TDI low that returned: the TDO
\* stream it parsed is the IDCODEs of the devices followed by zeros
ScansIdcodesThenZeros(o) ==
  /\ RightPinout
  /\ AllIdcodes
  /\ o.call.tdi_val = 0
  /\ o.run.res = "Ok"

\* the IDCODEs of the devices, in order
Idcodes == [i \in 1..Len(jtag.chain.devices) |-> <<"Some", jtag.chain.devices[i][2]>>]

(***************************************************************************)
(* C12: given the TDO stream of k IDCODEs (32 bits each, least significant *)
(* bit first, bit 0 = 1) followed by 32 zeros, the parser of scan_with     *)
(* returns exactly those k IDCODEs, in order, and no bypass markers.       *)
(***************************************************************************)
C12_ExactlyIdcodes ==
  \A n \in 1..Len(outcome) :
    ScansIdcodesThenZeros(outcome[n]) => outcome[n].run.idcodes = Idcodes

\* C12, as the parser does it: given the TDO stream of k IDCODEs, none of
\* them all-ones, followed by 32 zeros, the parser returns those k IDCODEs in
\* order followed by 32 bypass markers, one for each of the zeros.
C12_IdcodesThenMarkers ==
  \A n \in 1..Len(outcome) :
    ScansIdcodesThenZeros(outcome[n])
    => outcome[n].run.idcodes = Idcodes \o [i \in 1..ID_LEN |-> <<"None">>]

\* three IDCODEs are scanned
C12_Witness ==
  /\ outcome # <<>>
  /\ ScansIdcodesThenZeros(outcome[1])
  /\ Len(jtag.chain.devices) = 3
  /\ Len(outcome[1].run.idcodes) = 3 + ID_LEN
  /\ outcome[1].run.idcodes[3] = <<"Some", <<15264, 1143>>>>

(***************************************************************************)
(* C13: for every chain of IDCODE and bypass devices in any order, the     *)
(* scan with TDI low returns 32 entries more than the scan with TDI high   *)
(* if and only if the tested pinout is the one the chain is wired to, and  *)
(* the detector reports the pinout exactly then.                           *)
(***************************************************************************)
C13_DetectedIffRightPinout ==
  (/\ Len(outcome) = 2
   /\ outcome[1].call.tdi_val = 1 /\ outcome[1].run.res = "Ok"
   /\ outcome[2].call.tdi_val = 0 /\ outcome[2].run.res = "Ok")
  => /\ (Len(outcome[2].run.idcodes) - Len(outcome[1].run.idcodes) = 32)
          <=> RightPinout
     /\ detected(outcome[2].run.idcodes, outcome[1].run.idcodes) <=> RightPinout

(***************************************************************************)
(* The SWD call made, as the claims about it read it.                      *)
(***************************************************************************)
\* the clocks of all exchanges of a call, in order
RECURSIVE SwdWire(_)
SwdWire(wire) == IF wire = <<>> THEN <<>> ELSE Head(wire).events \o SwdWire(Tail(wire))

\* the byte whose bits are the first eight clocks of the call, the first
\* clock its bit 0
SwdRequest(wire) ==
  Weigh([k \in 1..8 |-> SwdWire(wire)[k][2]], 1, [k \in 1..8 |-> k - 1])

\* the number of ones among bits
Ones(bits) == Weigh(bits, 1, [k \in 1..Len(bits) |-> 0])

\* the ACK of a target, its first bit the least significant
TargetAck(target) == target[1] + 2 * target[2] + 4 * target[3]

\* the clocks common to a read and a write: the request of the call least
\* significant bit first, a turnaround and the three bits of the ACK
SwdHeader(call, ev) ==
  /\ Len(ev) >= 12
  /\ \A k \in 1..8 :
       ev[k] = <<"w", Bit(build_request(call.op = "read", call.addr), k - 1)>>
  /\ ev[9] = <<"z">>
  /\ \A k \in 1..3 : ev[9 + k] = <<"r", call.target[k]>>

\* the result of an ACK that is not 0b001
SwdAckError(run, ack) ==
  /\ ack = 2 => run.res = "AckWait" /\ run.value = <<>>
  /\ ack = 4 => run.res = "AckFailed" /\ run.value = <<>>
  /\ ack \notin {2, 4} => run.res = "UnknownAck" /\ run.value = <<ack>>

(***************************************************************************)
(* C14: for every SwdAddr and both directions the request byte has bit 0   *)
(* (Start) 1, bit 1 APnDP (1 for Ap, 0 for Dp), bit 2 RnW (1 exactly for a *)
(* read), bits 3 and 4 the bits 2 and 3 of the register address, bit 6     *)
(* (Stop) 0 and bit 7 (Park) 1.                                            *)
(***************************************************************************)
C14_RequestLayout ==
  (outcome # <<>> /\ outcome[1].run.wire # <<>>)
  => LET request == SwdRequest(outcome[1].run.wire)
         call == outcome[1].call
     IN /\ Bit(request, 0) = 1
        /\ Bit(request, 1) = (IF call.addr[1] = "Ap" THEN 1 ELSE 0)
        /\ Bit(request, 2) = (IF call.op = "read" THEN 1 ELSE 0)
        /\ Bit(request, 3) = Bit(call.addr[2], 2)
        /\ Bit(request, 4) = Bit(call.addr[2], 3)
        /\ Bit(request, 6) = 0
        /\ Bit(request, 7) = 1

(***************************************************************************)
(* C15: the parity bit (bit 5) of every request is 1 exactly when an odd   *)
(* number of its APnDP, RnW, A2 and A3 bits (bits 1 to 4) are 1.           *)
(***************************************************************************)
C15_RequestParity ==
  (outcome # <<>> /\ outcome[1].run.wire # <<>>)
  => LET request == SwdRequest(outcome[1].run.wire)
     IN Bit(request, 5) = (Bit(request, 1) + Bit(request, 2) + Bit(request, 3)
                           + Bit(request, 4)) % 2

(***************************************************************************)
(* C16: a read that meets no transport error clocks the request byte, one  *)
(* turnaround and the three bits of the ACK; for an ACK other than 0b001   *)
(* it clocks one more turnaround and nothing else, and returns AckWait for *)
(* 0b010, AckFailed for 0b100 and UnknownAck(ack) for any other; for       *)
(* 0b001 it reads 32 data bits, least significant first, the parity bit    *)
(* and a turnaround, and returns the value of the data bits exactly when   *)
(* the parity bit is the number of ones among them modulo 2, ParityError   *)
(* otherwise.                                                              *)
(***************************************************************************)
C16_ReadSequence ==
  (outcome # <<>> /\ outcome[1].call.op = "read" /\ outcome[1].run.res # "Transport")
  => LET call == outcome[1].call
         run == outcome[1].run
         ev == SwdWire(run.wire)
         ack == TargetAck(call.target)
         data == SubSeq(call.target, 4, 35)
     IN /\ SwdHeader(call, ev)
        /\ ack # 1 => /\ Len(ev) = 13
                      /\ ev[13] = <<"z">>
                      /\ SwdAckError(run, ack)
        /\ ack = 1 => /\ Len(ev) = 46
                      /\ \A k \in 1..33 : ev[12 + k] = <<"r", call.target[3 + k]>>
                      /\ ev[46] = <<"z">>
                      /\ run.res \in {"Ok", "ParityError"}
                      /\ run.res = "Ok" <=> call.target[36] = Ones(data) % 2
                      /\ run.res = "Ok" => Bits32(run.value) = data
                      /\ run.res = "ParityError" => run.value = <<>>

\* a read of 0x8000_0000 with its parity bit 1, through a direction pin
C16_Witness ==
  /\ outcome # <<>>
  /\ outcome[1].call.op = "read"
  /\ swd.direction_pin # <<>>
  /\ TargetAck(outcome[1].call.target) = 1
  /\ outcome[1].call.target[36] = 1
  /\ outcome[1].run.res = "Ok"
  /\ outcome[1].run.value = <<32768, 0>>
  /\ Len(SwdWire(outcome[1].run.wire)) = 46

(***************************************************************************)
(* C17: a write that meets no transport error clocks the request byte, a   *)
(* turnaround, the three bits of the ACK and a second turnaround; exactly  *)
(* when the ACK is 0b001 it then sends the 32 data bits, least significant *)
(* first, and a parity bit that is the number of ones of the value modulo  *)
(* 2, and returns Ok; for any other ACK it clocks nothing more and returns *)
(* the error of the ACK; the 33 bits sent, read back as a read reads them, *)
(* parse to the value written with no parity error.                        *)
(***************************************************************************)
C17_WriteSequence ==
  (outcome # <<>> /\ outcome[1].call.op = "write" /\ outcome[1].run.res # "Transport")
  => LET call == outcome[1].call
         run == outcome[1].run
         ev == SwdWire(run.wire)
         ack == TargetAck(call.target)
     IN /\ SwdHeader(call, ev)
        /\ Len(ev) >= 13
        /\ ev[13] = <<"z">>
        /\ ack # 1 => /\ Len(ev) = 13
                      /\ SwdAckError(run, ack)
        /\ ack = 1 =>
             /\ Len(ev) = 46
             /\ \A k \in 1..32 : ev[13 + k] = <<"w", Bits32(call.value)[k]>>
             /\ ev[46] = <<"w", Ones(Bits32(call.value)) % 2>>
             /\ run.res = "Ok"
             /\ LET back == swd_parse(
                              SwdBegin(mtx),
                              SwdDevice(
                                Decode(destruct(swd_read_data(
                                  SwdCmdBuilder(mtx, swd.direction_pin))).cmd),
                                1, [k \in 1..33 |-> ev[13 + k][2]], 0, FALSE).response)
                IN back.res = "Ok" /\ back.value = call.value

\* a write of 0x8000_0000, whose parity bit is 1, through a direction pin
C17_Witness ==
  /\ outcome # <<>>
  /\ outcome[1].call.op = "write"
  /\ swd.direction_pin # <<>>
  /\ outcome[1].call.value = <<32768, 0>>
  /\ outcome[1].run.res = "Ok"
  /\ SwdWire(outcome[1].run.wire)[46] = <<"w", 1>>

(***************************************************************************)
(* C2: allocating a pin that is in use.                                    *)
(***************************************************************************)
AllPins == {Lower(i) : i \in 0..7} \cup {Upper(i) : i \in 0..7}

PinUse == {"Output", "Input", "I2c", "Spi", "Jtag", "Swd"}

\* C2: if pin p is allocated with usage u1, alloc_pin(p, u2) for any usage u2
\* fails with the pin-in-use error carrying u1, and leaves the usage tables,
\* the direction and value bytes of both banks and the device (no command is
\* sent) as they were.
C2_AllocInUseFailsUnchanged ==
  \A p \in AllPins, u2 \in PinUse :
    mtx[p[1]].pins[p[2]] # "None" =>
      alloc_pin(mtx, p, u2) =
        [m |-> mtx, res |-> <<"PinInUsed", p, u2, mtx[p[1]].pins[p[2]]>>]

\* a constructor has just been refused a pin that another handle holds
C2_Witness ==
  /\ result[1] = "PinInUsed"
  /\ result[4] = mtx[result[2][1]].pins[result[2][2]]
  /\ \E s \in BagToSet(handles) : result[2] \in s.owned

(***************************************************************************)
(* C3: alloc_pin, the owner's changes, free_pin.                           *)
(***************************************************************************)
\* the usage tables and the direction and value bytes of both banks
Registry(m) == <<m.lower, m.upper>>

\* pin p's bit of a byte set or cleared
WithBit(byte, p, on) == IF on THEN Or8(byte, mask(p)) ELSE And8(byte, Not8(mask(p)))

\* the set-bank opcodes, with their two argument bytes, among the exchanges sent
SetBanks(sent, bank) ==
  {op \in UNION {{Decode(sent[i])[j] : j \in 1..Len(Decode(sent[i]))} : i \in 1..Len(sent)} :
     op[1] = IF bank = "lower" THEN SetDataBitsLowbyte ELSE SetDataBitsHighbyte}

\* C3: for every in-range unallocated pin p and every usage u, after
\* alloc_pin(p, u), any change the owner makes to p's direction and value bits,
\* and free_pin(p), the registry (usage tables, direction and value bytes of
\* both banks) equals its state before the alloc, and the set-bank opcode
\* free_pin sends carries 0 in the direction bit and in the value bit of p.
C3_AllocFreeRestoresRegistry ==
  \A p \in AllPins, u \in PinUse, dir \in BOOLEAN, val \in BOOLEAN :
    LET a == alloc_pin(mtx, p, u)
        owner == [a.m EXCEPT ![p[1]].direction = WithBit(@, p, dir),
                             ![p[1]].value = WithBit(@, p, val)]
        f == free_pin(owner, p)
    IN (mtx[p[1]].pins[p[2]] = "None" /\ a.res[1] = "Ok") =>
         /\ Registry(f) = Registry(mtx)
         /\ SetBanks(f.ft.sent, p[1]) # {}
         /\ \A op \in SetBanks(f.ft.sent, p[1]) :
              Bit(op[2], p[2]) = 0 /\ Bit(op[3], p[2]) = 0

(***************************************************************************)
(* C5: what the destruction of a handle clears.                            *)
(***************************************************************************)
\* C5: after any GPIO pin handle or protocol object is destroyed, every pin it
\* held has no usage recorded, direction bit 0 and value bit 0 in the
\* controller, and the device has received a set-bank opcode carrying those
\* cleared bits; the pins held by the other live handles keep their usage,
\* direction and value.  Stated of drop in every state, for every live handle.
C5_DropClearsOwnPinsOnly ==
  \A h \in BagToSet(handles) :
    LET d == drop(mtx, h)
    IN /\ \A p \in h.owned :
            /\ d[p[1]].pins[p[2]] = "None"
            /\ Bit(d[p[1]].direction, p[2]) = 0
            /\ Bit(d[p[1]].value, p[2]) = 0
            /\ \E op \in SetBanks(d.ft.sent, p[1]) :
                 Bit(op[2], p[2]) = 0 /\ Bit(op[3], p[2]) = 0
            /\ Bit(d.ft[p[1]][1], p[2]) = 0 /\ Bit(d.ft[p[1]][2], p[2]) = 0
       /\ \A g \in BagToSet(handles (-) SetToBag({h})) :
            \A q \in g.owned :
              /\ d[q[1]].pins[q[2]] = mtx[q[1]].pins[q[2]]
              /\ Bit(d[q[1]].direction, q[2]) = Bit(mtx[q[1]].direction, q[2])
              /\ Bit(d[q[1]].value, q[2]) = Bit(mtx[q[1]].value, q[2])

(***************************************************************************)
(* C1: response-length accounting.                                         *)
(***************************************************************************)
\* what the claim says one call adds to read_len
Contribution(c) ==
  CASE c[1] \in {"gpio_lower", "gpio_upper"} -> 1
    [] c[1] \in {"shift_bytes_in", "shift_bytes"} -> c[2]
    [] c[1] \in {"shift_bits_in", "shift_bits"} /\ c[2] \in 1..8 -> 1
    [] c[1] = "clock_tms" /\ c[2] \in 1..7 -> 1
    [] OTHER -> 0

RECURSIVE SumContributions(_)
SumContributions(cs) ==
  IF cs = <<>> THEN 0 ELSE Contribution(Head(cs)) + SumContributions(Tail(cs))

\* C1: for any sequence of builder calls read_len is the sum over the calls of
\* 1 per gpio_lower/gpio_upper, n per shift_bytes_in/shift_bytes of n bytes,
\* 1 per shift_bits_in/shift_bits of 1..=8 bits, 1 per clock_tms of 1..=7 bits
\* and 0 for everything else; the response buffer destruct returns has
\* exactly read_len bytes.
C1_ReadLenIsSumOfCalls ==
  /\ read_len = SumContributions(calls)
  /\ built # <<>> => built[1].response.len = SumContributions(calls)

C1_Witness ==
  /\ built # <<>>
  /\ Len(calls) = MaxCalls
  /\ \E i \in 1..Len(calls) : calls[i] = <<"shift_bytes_in", MAX_BYTES_SHIFT + 1>>
  /\ \E i \in 1..Len(calls) : calls[i] = <<"clock_tms", 1>>
  /\ read_len = MAX_BYTES_SHIFT + 2
  /\ built[1].response.len = MAX_BYTES_SHIFT + 2

(***************************************************************************)
(* The byte shift made and the opcodes constructed, as the claims about    *)
(* them read them.                                                         *)
(***************************************************************************)
\* the number of bytes the sub-command op carries, by its length field
ByteCount(op) == op[2] + 256 * op[3] + 1

RECURSIVE SumByteCounts(_)
SumByteCounts(ops) ==
  IF ops = <<>> THEN 0 ELSE ByteCount(Head(ops)) + SumByteCounts(Tail(ops))

\* the payloads of the sub-commands ops, concatenated in order
RECURSIVE Payloads(_)
Payloads(ops) ==
  IF ops = <<>> THEN <<>>
  ELSE SubSeq(Head(ops), 4, Len(Head(ops))) \o Payloads(Tail(ops))

\* the byte shifts, and those of them that write
ByteShifts == {"shift_bytes_out", "shift_bytes_in", "shift_bytes"}
WritingByteShifts == {"shift_bytes_out", "shift_bytes"}

\* C18: a byte shift (shift_bytes_out, shift_bytes_in or shift_bytes) of
\* length L is emitted as exactly ceil(L / 65536) sub-commands (none when
\* L = 0), each a byte-mode data shift carrying between 1 and 65536 bytes
\* with its length field (count - 1) in 16 bits little-endian; the counts sum
\* to L and the payloads concatenated in order are the original data.
C18_ChunkedByteShift ==
  (Len(calls) = 1 /\ calls[1][1] \in ByteShifts) =>
    \E name \in {calls[1][1]}, L \in {calls[1][2]} : \A ops \in {Decode(cmd)} :
      /\ Len(ops) = (L + 65535) \div 65536
      /\ L = 0 => cmd = <<>>
      /\ \A i \in DOMAIN ops :
           /\ Bit(ops[i][1], 1) = 0
           /\ Bit(ops[i][1], 6) = 0
           /\ Bit(ops[i][1], 7) = 0
           /\ Bit(ops[i][1], 4) = 1 <=> name \in WritingByteShifts
           /\ Bit(ops[i][1], 5) = 1 <=> name \in {"shift_bytes_in", "shift_bytes"}
           /\ ops[i][2] \in 0..255
           /\ ops[i][3] \in 0..255
           /\ ByteCount(ops[i]) \in 1..65536
           /\ ops[i][2] = (ByteCount(ops[i]) - 1) % 256
           /\ ops[i][3] = (ByteCount(ops[i]) - 1) \div 256
           /\ Len(ops[i]) = 3 + (IF name \in WritingByteShifts
                                 THEN ByteCount(ops[i]) ELSE 0)
      /\ SumByteCounts(ops) = L
      /\ name \in WritingByteShifts => Payloads(ops) = Data(L)

C18_Witness ==
  /\ calls = <<<<"shift_bytes", MAX_BYTES_SHIFT + 1>>>>
  /\ Len(Decode(cmd)) = 2
  /\ ByteCount(Decode(cmd)[1]) = MAX_BYTES_SHIFT
  /\ ByteCount(Decode(cmd)[2]) = 1
  /\ Len(cmd) = MAX_BYTES_SHIFT + 1 + 6
  /\ read_len = MAX_BYTES_SHIFT + 1

\* the constructions of outcome made by the constructor op
ConstructionsBy(op) ==
  {outcome[i] : i \in {j \in DOMAIN outcome : outcome[j].call.op = op}}

\* 1 for TRUE, 0 for FALSE
Flag(b) == IF b THEN 1 ELSE 0

\* C19: for every (tck_idle, bit_mode, lsb_first, writing, reading) with
\* writing or reading true MpsseShiftCmd::shift returns the byte whose
\* bit 0 = (not tck_idle and writing), bit 1 = bit_mode, bit 2 = (tck_idle and
\* reading), bit 3 = lsb_first, bit 4 = writing, bit 5 = reading and
\* bits 6-7 = 0; with writing and reading both false it rejects the request
\* instead of returning a byte.
C19_ShiftBitLayout ==
  \A o \in ConstructionsBy("shift") :
    IF o.call.is_tdi_write \/ o.call.is_tdo_read
    THEN /\ o.run.res = "Ok"
         /\ Len(o.run.byte) = 1
         /\ o.run.byte[1] \in 0..255
         /\ Bit(o.run.byte[1], 0) =
              Flag((~o.call.tck_init_value) /\ o.call.is_tdi_write)
         /\ Bit(o.run.byte[1], 1) = Flag(o.call.is_bit_mode)
         /\ Bit(o.run.byte[1], 2) =
              Flag(o.call.tck_init_value /\ o.call.is_tdo_read)
         /\ Bit(o.run.byte[1], 3) = Flag(o.call.is_lsb)
         /\ Bit(o.run.byte[1], 4) = Flag(o.call.is_tdi_write)
         /\ Bit(o.run.byte[1], 5) = Flag(o.call.is_tdo_read)
         /\ Bit(o.run.byte[1], 6) = 0
         /\ Bit(o.run.byte[1], 7) = 0
    ELSE /\ o.run.res = "panic"
         /\ o.run.byte = <<>>

C19_Witness ==
  /\ Len(outcome) = 2
  /\ outcome[1].call = [op |-> "shift", tck_init_value |-> TRUE,
                        is_bit_mode |-> FALSE, is_lsb |-> TRUE,
                        is_tdi_write |-> TRUE, is_tdo_read |-> FALSE]
  /\ outcome[1].run = [res |-> "Ok", byte |-> <<24>>]
  /\ outcome[2].call.op = "shift"
  /\ ~outcome[2].call.is_tdi_write
  /\ ~outcome[2].call.is_tdo_read
  /\ outcome[2].run.res = "panic"

\* the opcodes test::mpsse_shift_cmd_black_box_test expects: 0x10 .. 0x1b,
\* 0x20 .. 0x2e, 0x31 .. 0x3e, and the TMS shifts 0x4a, 0x4b, 0x6a, 0x6b,
\* 0x6e, 0x6f
LegalOpcodes ==
  {16, 17, 18, 19, 24, 25, 26, 27,
   32, 34, 36, 38, 40, 42, 44, 46,
   49, 51, 52, 54, 57, 59, 60, 62,
   74, 75, 106, 107, 110, 111}

\* what shift returns over its legal inputs
ShiftOpcodes ==
  {shift(tck, bit_mode, lsb, tdi_write, tdo_read) :
     <<tck, bit_mode, lsb, tdi_write, tdo_read>> \in
       {a \in BOOLEAN \X BOOLEAN \X BOOLEAN \X BOOLEAN \X BOOLEAN :
          a[4] \/ a[5]}}

\* what _tms_shift returns over all its inputs
TmsShiftOpcodes ==
  {tms_shift_(tck, tdo_neg_read, tdo_read) :
     tck \in BOOLEAN, tdo_neg_read \in BOOLEAN, tdo_read \in BOOLEAN}

\* C20: the bytes shift produces over all legal data-shift inputs, together
\* with the bytes _tms_shift produces over all its inputs, are exactly the 30
\* opcodes of LegalOpcodes; the TMS shifts the builder issues are 0x4b (write
\* only, clock_tms_out) and 0x6b (with TDO read, clock_tms).
C20_LegalOpcodes ==
  /\ \A o \in ConstructionsBy("shift") \cup ConstructionsBy("_tms_shift") :
       o.run.res = "Ok" => o.run.byte[1] \in LegalOpcodes
  /\ \A o \in ConstructionsBy("_tms_shift") : o.run.res = "Ok"
  /\ \A o \in ConstructionsBy("tms_shift") :
       o.run = [res |-> "Ok", byte |-> <<IF o.call.tdo_read THEN 107 ELSE 75>>]
  /\ ShiftOpcodes \cup TmsShiftOpcodes = LegalOpcodes
  /\ Cardinality(LegalOpcodes) = 30
  /\ \A tdi \in BOOLEAN :
       /\ clock_tms_out(NewBuilder, tdi, 1, 1).cmd[1] = 75
       /\ clock_tms(NewBuilder, tdi, 1, 1).cmd[1] = 107

C20_Witness ==
  /\ Len(outcome) = 2
  /\ outcome[1].call = [op |-> "_tms_shift", tck_init_value |-> FALSE,
                        tdo_neg_read |-> TRUE, tdo_read |-> TRUE]
  /\ outcome[1].run = [res |-> "Ok", byte |-> <<111>>]
  /\ outcome[2].call = [op |-> "tms_shift", tdo_read |-> TRUE]
  /\ outcome[2].run = [res |-> "Ok", byte |-> <<107>>]

(***************************************************************************)
(* C21: free_pin on a pin that has no usage.                               *)
(***************************************************************************)
\* C21: free_pin(p) on a pin that is not allocated succeeds and leaves the
\* usage tables and the direction and value bytes of both banks unchanged;
\* free_pin(p) twice in a row leaves the registry as free_pin(p) once does.
C21_FreeUnallocatedIsNoOp ==
  \A p \in AllPins :
    mtx[p[1]].pins[p[2]] = "None" =>
      \A once \in {free_pin(mtx, p)} :
        /\ Registry(once) = Registry(mtx)
        /\ Registry(free_pin(once, p)) = Registry(once)

\* the second half alone: free_pin(p) twice is free_pin(p) once, for any pin
C21_FreeTwiceIsFreeOnce ==
  \A p \in AllPins :
    \A once \in {free_pin(mtx, p)} :
      Registry(free_pin(once, p)) = Registry(once)

(***************************************************************************)
(* C22: alloc_pin on a channel that is not MPSSE-capable.                  *)
(***************************************************************************)
\* the usages of the serial protocols
ProtocolUse == {"I2c", "Spi", "Jtag", "Swd"}

\* pin is present on the controller's chip
InRange(m, pin) ==
  \/ pin[1] = "lower" /\ pin[2] < 8
  \/ pin[1] = "upper" /\ pin[2] < upper_pins(m.chip_type)

\* C22: alloc_pin fails with IncorrectUsage exactly when the requested usage
\* is one of I2c, Spi, Jtag, Swd and the controller's channel is not
\* MPSSE-capable; a request for Input or Output on such a channel is never
\* rejected for that reason and succeeds when the pin is in range and free.
C22_IncorrectUsageIffProtocol ==
  \A p \in AllPins \cup {Lower(8)}, u \in PinUse :
    \A a \in {alloc_pin(mtx, p, u)} :
      /\ a.res[1] = "IncorrectUsage" <=>
           (u \in ProtocolUse /\ mtx.interface \notin mpsse_list(mtx.chip_type))
      /\ (u \in {"Input", "Output"} /\ InRange(mtx, p)
            /\ mtx[p[1]].pins[p[2]] = "None") =>
           a.res = <<"Ok">> /\ a.m[p[1]].pins[p[2]] = u

(***************************************************************************)
(* C23: the clock divisor set_frequency writes.                            *)
(***************************************************************************)
\* the set-clock opcodes of the command streams sent
SetClocks(sent) ==
  SelectSeq(Decode(sent[1]), LAMBDA op : op[1] = SetClockFrequency)

\* ceil(max_freq / hz) - 1 clamped into 0..=65535; for hz = 0 the quotient is
\* beyond every bound
ClampedDivisor(max_freq, hz) ==
  IF hz = 0 THEN 65535 ELSE Min({(max_freq - 1) \div hz, 65535})

\* C23: for every chip family and every requested hz, set_frequency writes
\* divisor = ceil(max_freq / hz) - 1 clamped into 0..=65535 (a request above
\* max_freq yields the maximum rate, a request below max_freq / 2^16 the
\* minimum rate), the value written fits the 16-bit divisor field without
\* truncation, and the returned frequency equals max_freq / (divisor + 1).
C23_DivisorClamped ==
  \A o \in ConstructionsBy("set_frequency") :
    \E hz \in {o.call.frequency_hz}, max_freq \in {max_frequecny(mtx.chip_type)[1]} :
      \A clocks \in {SetClocks(mtx.ft.sent)} :
        /\ Len(mtx.ft.sent) = 1
        /\ Len(clocks) = 1
        /\ clocks[1][2] + 256 * clocks[1][3] = ClampedDivisor(max_freq, hz)
        /\ frequency_divisor(mtx, hz) - 1 \in 0..65535
        /\ frequency_divisor(mtx, hz) - 1 = ClampedDivisor(max_freq, hz)
        /\ hz > max_freq => clocks[1][2] + 256 * clocks[1][3] = 0
        /\ hz <= (max_freq - 1) \div 65536 => clocks[1][2] + 256 * clocks[1][3] = 65535
        /\ o.run.res =
             <<"Ok", max_freq \div (clocks[1][2] + 256 * clocks[1][3] + 1)>>

C23_Witness ==
  /\ mtx.chip_type = "FT232H"
  /\ outcome # <<>>
  /\ outcome[1].call = [op |-> "set_frequency", frequency_hz |-> 7000000]
  /\ outcome[1].run.res = <<"Ok", 6000000>>
  /\ SetClocks(mtx.ft.sent) = <<<<SetClockFrequency, 4, 0>>>>

(***************************************************************************)
(* C24, C25: what write_read returns.                                      *)
(***************************************************************************)
\* the in-order concatenation of the packets with the first 2 (status) bytes
\* of every packet removed
RECURSIVE PayloadsOf(_)
PayloadsOf(packets) ==
  IF packets = <<>> THEN <<>>
  ELSE (IF Len(Head(packets)) > 2
        THEN SubSeq(Head(packets), 3, Len(Head(packets))) ELSE <<>>)
       \o PayloadsOf(Tail(packets))

\* C24: write_read(write, read) with read of length n returns Ok only after
\* exactly n payload bytes have been stored in read, equal to the in-order
\* concatenation of the received bulk-in packets with the first 2 (status)
\* bytes of every packet removed; it never returns Ok with fewer than n bytes
\* stored, and packets holding only the 2 status bytes contribute nothing.
C24_OkOnlyWhenFilled ==
  (usb # <<>> /\ usb.res = <<"Ok">>) =>
    /\ usb.read_len = Len(usb.read)
    /\ Len(PayloadsOf(usb.received)) = Len(usb.read)
    /\ usb.read = PayloadsOf(usb.received)

C24_Witness ==
  /\ usb # <<>>
  /\ usb.res = <<"Ok">>
  /\ usb.received = <<<<50, 96, 17>>, <<50, 96>>, <<50, 96, 49>>>>
  /\ usb.read = <<17, 49>>

\* the packets the device has reported by the time the call returns: those
\* bulk_in returned and, for a call that asks for no response and so never
\* reads, those it has ready
Reported ==
  usb.received \o (IF Len(usb.read) = 0 THEN usb.device ELSE <<>>)

\* C25: whenever the device reports a bad-opcode condition for an exchange (a
\* bulk-in packet whose first status byte is 0xFA), the exchange fails with
\* BadMpsseCommand carrying the second byte; this holds for every command
\* stream, including those whose expected response length is 0 and packets
\* that hold only the two status bytes.
C25_BadOpcodeSurfaced ==
  (usb # <<>> /\ usb.fail = "None" /\ usb.res \notin {<<"Running">>, <<"panic">>}) =>
    \A k \in DOMAIN Reported :
      (Len(Reported[k]) >= 2 /\ Reported[k][1] = 250) =>
        usb.res = <<"BadMpsseCommand", Reported[k][2]>>

\* what the code does surface: a received packet that reports a bad opcode
\* and holds at least one byte after the two status bytes
C25_BadOpcodeWithPayloadSurfaced ==
  (usb # <<>> /\ usb.fail = "None" /\ usb.res \notin {<<"Running">>, <<"panic">>}) =>
    \A k \in DOMAIN usb.received :
      (Len(usb.received[k]) > 2 /\ usb.received[k][1] = 250) =>
        usb.res = <<"BadMpsseCommand", usb.received[k][2]>>

(***************************************************************************)
(* C26: the bits of pins without usage.                                    *)
(***************************************************************************)
\* C26: in every reachable state, after any sequence of handle constructions
\* (successful or failed), handle operations and destructions, for each bank
\* and each index i with no usage recorded, bit i of that bank's direction
\* byte and bit i of its value byte are 0.
C26_UnusedPinsAreZero ==
  \A p \in AllPins :
    mtx[p[1]].pins[p[2]] = "None" =>
      /\ Bit(mtx[p[1]].direction, p[2]) = 0
      /\ Bit(mtx[p[1]].value, p[2]) = 0

(***************************************************************************)
(* C27.  In SpecPins every state is one in which no operation holds the    *)
(* controller's mutex: an action is a whole operation, from its lock() to  *)
(* the drop of its guard.                                                  *)
(***************************************************************************)
\* C27: whenever the mutex is released, the value and direction the device
\* was last given for its lower and upper banks, by the set-bank opcodes
\* sent so far, are the controller's stored lower and upper bytes.
C27_BanksAgreeWhenReleased ==
  /\ mtx.ft.lower = <<mtx.lower.value, mtx.lower.direction>>
  /\ mtx.ft.upper = <<mtx.upper.value, mtx.upper.direction>>

(***************************************************************************)
(* jtag/hw_jtag.rs: JtagCmdBuilder and FtdiJtag.  hw_jtag.rs calls the     *)
(* builder by the names of an older mpsse_cmd.rs: its clock_bytes,         *)
(* clock_bits.. are shift_bytes, shift_bits.. here, and its clock_tms_out  *)
(* (tck_init_value, data, tdi, len) and clock_tms(tck_init_value,          *)
(* tdo_neg_read, data, tdi, len) are clock_tms_out(tdi, data, len) and     *)
(* clock_tms(tdi, data, len), TCK_INIT_VALUE and TDO_NEG_READ being the    *)
(* false that tms_shift passes.  IS_LSB is true.                           *)
(***************************************************************************)
jtag_any2idle(b) == clock_tms_out(b, TRUE, 31, 6)

jtag_idle_cycle(b) == clock_tms_out(b, TRUE, 0, 7)

jtag_idle2ir(b) == clock_tms_out(b, TRUE, 3, 4)

jtag_ir_exit2dr(b) == clock_tms_out(b, TRUE, 3, 4)

jtag_idle2dr(b) == clock_tms_out(b, TRUE, 1, 3)

jtag_dr_exit2idle(b) == clock_tms_out(b, TRUE, 1, 2)

\* data[bytes_count] >> remain_bits == 1
last_bit(data, bits_count) ==
  (data[((bits_count - 1) \div 8) + 1] \div Pow2((bits_count - 1) % 8)) = 1

jtag_shift(b, data, bits_count) ==
  clock_tms(
    shift_bits(
      shift_bytes(b, FALSE, TRUE, SubSeq(data, 1, (bits_count - 1) \div 8)),
      FALSE, TRUE, data[((bits_count - 1) \div 8) + 1], (bits_count - 1) % 8),
    last_bit(data, bits_count), 1, 1)

jtag_shift_write(b, data, bits_count) ==
  clock_tms_out(
    shift_bits_out(
      shift_bytes_out(b, FALSE, TRUE, SubSeq(data, 1, (bits_count - 1) \div 8)),
      FALSE, TRUE, data[((bits_count - 1) \div 8) + 1], (bits_count - 1) % 8),
    last_bit(data, bits_count), 1, 1)

\* last_bit is Default::default(), false
jtag_shift_read(b, bits_count) ==
  clock_tms(
    shift_bits_in(
      shift_bytes_in(b, FALSE, TRUE, (bits_count - 1) \div 8),
      FALSE, TRUE, (bits_count - 1) % 8),
    FALSE, 1, 1)

\* u8 >> n and the low eight bits of u8 << n
Shr8(v, n) == v \div Pow2(n)

\* jtag_parse_single_shift that leaves the bit of the TMS shift where it is
jtag_parse_single_shift_no_last(response, bits_count) ==
  LET bytes_count == (bits_count - 1) \div 8
      remain_bits == (bits_count - 1) % 8
      at == bytes_count + 1
  IN [response |->
        IF remain_bits = 0
        THEN [response EXCEPT ![at] = Shr8(@, 7)]
        ELSE [response EXCEPT ![at] = Shr8(@, 8 - remain_bits)],
      len |-> bytes_count + 1]

\* jtag_parse_single_shift: the response with the bits of the last two
\* bytes gathered in response[bytes_count], and bytes_count + 1
jtag_parse_single_shift(response, bits_count) ==
  LET bytes_count == (bits_count - 1) \div 8
      remain_bits == (bits_count - 1) % 8
      at == bytes_count + 1
  IN [response |->
        IF remain_bits = 0
        THEN [response EXCEPT ![at] = Shr8(@, 7)]
        ELSE [response EXCEPT ![at] =
                Or8(Shr8(@, 8 - remain_bits),
                    Shr8(And8(response[at + 1], 128), 7 - remain_bits))],
      len |-> bytes_count + 1]

(***************************************************************************)
(* The target on the JTAG pins: a TAP controller clocked by the shift      *)
(* opcodes the device takes.  A TMS shift clocks its bits 0.. on TMS, least *)
(* significant first, with bit 7 of its byte on TDI; a data shift clocks   *)
(* with TMS held where the last TMS shift left it.  The TAP moves on each  *)
(* clock by the level of TMS; in Shift-DR the target puts the next bit of  *)
(* its data register on TDO, stream being the bits it shifts out one scan  *)
(* after the other: stream.prefix and then stream.tail for ever.  Outside  *)
(* Shift-DR TDO reads as 1.                                                *)
(***************************************************************************)
StreamBit(stream, k) == IF k <= Len(stream.prefix) THEN stream.prefix[k] ELSE stream.tail

\* the clocks of the opcode op, the i-th of an exchange: -1 stands for a
\* line the opcode leaves as it is
ClocksOf(op, i) ==
  IF op[1] >= 128 THEN <<>>
  ELSE IF Bit(op[1], 6) = 1
  THEN [k \in 1..(op[2] + 1) |->
          [op |-> i, kind |-> "tms", tms |-> Bit(op[3], k - 1), tdi |-> Bit(op[3], 7)]]
  ELSE IF Bit(op[1], 4) = 1
  THEN [k \in 1..Len(ShiftOut(op)) |->
          [op |-> i, kind |-> "data", tms |-> -1, tdi |-> ShiftOut(op)[k]]]
  ELSE [k \in 1..(IF Bit(op[1], 1) = 1 THEN op[2] + 1 ELSE 8 * (op[2] + 256 * op[3] + 1)) |->
          [op |-> i, kind |-> "data", tms |-> -1, tdi |-> -1]]

RECURSIVE ClocksFrom(_, _)
ClocksFrom(ops, i) ==
  IF i > Len(ops) THEN <<>> ELSE ClocksOf(ops[i], i) \o ClocksFrom(ops, i + 1)

\* one clock: tap is [state, tms, tdi, drpos, stream, log]
TapClock(tap, c) ==
  LET tms == IF c.tms = -1 THEN tap.tms ELSE c.tms
      tdi == IF c.tdi = -1 THEN tap.tdi ELSE c.tdi
      next == TapNext(tap.state, tms)
  IN [tap EXCEPT
        !.state = next,
        !.tms = tms,
        !.tdi = tdi,
        !.drpos = IF tap.state = "ShiftDR" THEN @ + 1
                  ELSE IF next \in {"ShiftDR", "Exit1DR", "PauseDR", "Exit2DR"} THEN @
                  ELSE 0,
        !.log = Append(@, [tap |-> tap.state, kind |-> c.kind, op |-> c.op,
                           tms |-> tms, tdi |-> tdi,
                           tdo |-> IF tap.state = "ShiftDR"
                                   THEN StreamBit(tap.stream, tap.drpos + 1)
                                   ELSE 1])]

\* the clocks from the i-th to the j-th, by halves
RECURSIVE TapClocks(_, _, _, _)
TapClocks(clocks, i, j, tap) ==
  IF i > j THEN tap
  ELSE IF i = j THEN TapClock(tap, clocks[i])
  ELSE Then(TapClocks(clocks, i, (i + j) \div 2, tap),
            LAMBDA v : TapClocks(clocks, ((i + j) \div 2) + 1, j, v))

\* the bytes the device answers: for each opcode that reads, the bits
\* sampled on its clocks
RECURSIVE TapResponse(_, _, _)
TapResponse(ops, i, log) ==
  IF i > Len(ops) THEN <<>>
  ELSE (IF ops[i][1] < 128 /\ Bit(ops[i][1], 5) = 1
        THEN ShiftIn(ops[i], [k \in 1..Len(SelectSeq(log, LAMBDA e : e.op = i)) |->
                                SelectSeq(log, LAMBDA e : e.op = i)[k].tdo])
        ELSE <<>>)
       \o TapResponse(ops, i + 1, log)

\* the target and the response after the device has taken the opcodes ops
TapDevice(ops, tap) ==
  Then([ops |-> ops, clocks |-> ClocksFrom(ops, 1), tap |-> [tap EXCEPT !.log = <<>>]],
       LAMBDA v :
         Then(TapClocks(v.clocks, 1, Len(v.clocks), v.tap),
              LAMBDA t : [tap |-> t, response |-> TapResponse(v.ops, 1, t.log)]))

(***************************************************************************)
(* FtdiJtag.  A run of an operation is the record [self, m, tap, call,     *)
(* res, value, log, exchanges, locks, scan]: self the handle's fields, m   *)
(* the locked controller, tap the target, res "Running" until the          *)
(* operation returns, log the clocks the target has seen, exchanges and    *)
(* locks the numbers of write_read calls and of mtx.lock() calls so far.   *)
(* call.fail = <<n, how>> makes the n-th exchange of the call fail: with   *)
(* "bulk_out" before the device has taken the command, with "bulk_in"      *)
(* after it, which takes a response to be read (write_read reads nothing   *)
(* into an empty buffer).                                                  *)
(***************************************************************************)
JtagBegin(self, m, tap, call) ==
  [self |-> self, m |-> m, tap |-> [tap EXCEPT !.log = <<>>], call |-> call,
   res |-> "Running", value |-> <<>>, log |-> <<>>, exchanges |-> 0, locks |-> 0,
   response |-> <<>>,
   scan |-> [idcodes |-> <<>>, current_id |-> [k \in 1..ID_LEN |-> 0],
             bit_count |-> 0, consecutive_zeros |-> 0, done |-> FALSE]]

\* self.mtx.lock().unwrap()
JtagLock(st) == [st EXCEPT !.locks = @ + 1]

\* lock.write_read(cmd.as_slice(), &mut response)?
JtagExchange(st, b) ==
  IF st.res # "Running" THEN st
  ELSE LET n == st.exchanges + 1
           failing == /\ st.call.fail[1] = n
                      /\ (st.call.fail[2] = "bulk_out" \/ b.read_len > 0)
           taken == ~failing \/ st.call.fail[2] = "bulk_in"
       IN Then(IF taken THEN TapDevice(Decode(destruct(b).cmd), st.tap)
               ELSE [tap |-> [st.tap EXCEPT !.log = <<>>], response |-> <<>>],
               LAMBDA dev :
                 [st EXCEPT !.exchanges = n,
                            !.m = IF taken THEN exec(@, b) ELSE @,
                            !.tap = dev.tap,
                            !.log = @ \o dev.tap.log,
                            !.response = dev.response,
                            !.res = IF failing THEN "Transport" ELSE @])

\* Ok(value) at the end of an operation that is still running
JtagOk(st, value) ==
  IF st.res = "Running" THEN [st EXCEPT !.res = "Ok", !.value = value] ELSE st

\* FtdiJtag::goto_idle up to its Ok(())
goto_idle(st) ==
  Then(JtagExchange(JtagLock(st), jtag_any2idle(NewBuilder)),
       LAMBDA s : IF s.res = "Running" THEN [s EXCEPT !.self.is_idle = TRUE] ELSE s)

\* the u32 whose bits, least significant first, are id, as <<high, low>>
IdWord(id) ==
  <<Weigh(SubSeq(id, 17, 32), 1, [k \in 1..16 |-> k - 1]),
    Weigh(SubSeq(id, 1, 16), 1, [k \in 1..16 |-> k - 1])>>

\* the body with a word of ones recorded like any other word
scan_bit_ones_recorded(sc, tdo_val) ==
  Then(IF sc.bit_count = 0 /\ tdo_val = 0
       THEN [sc EXCEPT !.idcodes = Append(@, <<"None">>),
                       !.consecutive_zeros = @ + 1]
       ELSE [sc EXCEPT !.current_id = Tail(@) \o <<tdo_val>>,
                       !.bit_count = @ + 1,
                       !.consecutive_zeros = 0],
       LAMBDA a :
         IF a.consecutive_zeros = ID_LEN THEN [a EXCEPT !.done = TRUE]
         ELSE IF a.bit_count = ID_LEN
         THEN [a EXCEPT !.idcodes = Append(@, <<"Some", IdWord(a.current_id)>>),
                        !.bit_count = 0]
         ELSE a)

\* the body of `for tdo_val in tdos`; done stands for break 'outer
scan_bit(sc, tdo_val) ==
  Then(IF sc.bit_count = 0 /\ tdo_val = 0
       THEN [sc EXCEPT !.idcodes = Append(@, <<"None">>),
                       !.consecutive_zeros = @ + 1]
       ELSE [sc EXCEPT !.current_id = Tail(@) \o <<tdo_val>>,
                       !.bit_count = @ + 1,
                       !.consecutive_zeros = 0],
       LAMBDA a :
         IF a.consecutive_zeros = ID_LEN THEN [a EXCEPT !.done = TRUE]
         ELSE IF a.bit_count = ID_LEN
         THEN IF \A k \in 1..ID_LEN : a.current_id[k] = 1
              THEN [a EXCEPT !.done = TRUE]
              ELSE [a EXCEPT !.idcodes = Append(@, <<"Some", IdWord(a.current_id)>>),
                             !.bit_count = 0]
         ELSE a)

RECURSIVE scan_bits(_, _, _)
scan_bits(sc, tdos, k) ==
  IF k > Len(tdos) \/ sc.done THEN sc
  ELSE Then(scan_bit(sc, tdos[k]), LAMBDA v : scan_bits(v, tdos, k + 1))

\* response.iter().flat_map(|&byte| (0..8).map(move |i| (byte >> i) & 1 == 1))
Tdos(response) ==
  [k \in 1..(8 * Len(response)) |-> Bit(response[((k - 1) \div 8) + 1], (k - 1) % 8)]

\* 'outer: loop of FtdiJtag::scan_with; a loop still going after rounds
\* more exchanges is reported as "Unending"
RECURSIVE scan_loop(_, _, _)
scan_loop(st, tdi, rounds) ==
  IF st.res # "Running" \/ st.scan.done THEN st
  ELSE IF rounds = 0 THEN [st EXCEPT !.res = "Unending"]
  ELSE Then(JtagExchange(st, shift_bytes(NewBuilder, FALSE, TRUE, tdi)),
            LAMBDA s :
              IF s.res # "Running" THEN s
              ELSE Then([s EXCEPT !.scan = scan_bits(s.scan, Tdos(s.response), 1)],
                        LAMBDA t : scan_loop(t, tdi, rounds - 1)))

\* FtdiJtag::scan_with: the guard is dropped before goto_idle takes the
\* mutex again
FtdiJtag_scan_with(st, tdi) ==
  Then(scan_loop(JtagExchange(JtagLock(st), jtag_idle2dr(jtag_any2idle(NewBuilder))),
                 IF tdi THEN <<255, 255, 255, 255>> ELSE <<0, 0, 0, 0>>,
                 MaxScanRounds),
       LAMBDA s : IF s.res = "Running" THEN JtagOk(goto_idle(s), s.scan.idcodes)
                  ELSE s)

\* `if !self.is_idle { cmd.jtag_any2idle(); }` and jtag_idle2ir
jtag_to_ir(self) ==
  jtag_idle2ir(IF ~self.is_idle THEN jtag_any2idle(NewBuilder) ELSE NewBuilder)

\* FtdiJtag::write
FtdiJtag_write(st, ir, irlen, dr, drlen) ==
  JtagOk(
    JtagExchange(
      JtagLock(st),
      jtag_idle_cycle(jtag_dr_exit2idle(
        jtag_shift_write(
          jtag_ir_exit2dr(jtag_shift_write(jtag_to_ir(st.self), ir, irlen)),
          dr, drlen)))),
    <<>>)

\* the end of read and of write_read: the response parsed, and popped when
\* it is longer than the parsed length
jtag_parsed(st, drlen) ==
  IF st.res # "Running" THEN st
  ELSE LET p == jtag_parse_single_shift(st.response, drlen)
       IN JtagOk(st, IF Len(p.response) > p.len
                     THEN SubSeq(p.response, 1, Len(p.response) - 1)
                     ELSE p.response)

\* FtdiJtag::read
FtdiJtag_read(st, ir, irlen, drlen) ==
  jtag_parsed(
    JtagExchange(
      JtagLock(st),
      jtag_idle_cycle(jtag_dr_exit2idle(
        jtag_shift_read(
          jtag_ir_exit2dr(jtag_shift_write(jtag_to_ir(st.self), ir, irlen)),
          drlen)))),
    drlen)

\* FtdiJtag::write_read
FtdiJtag_write_read(st, ir, irlen, dr, drlen) ==
  jtag_parsed(
    JtagExchange(
      JtagLock(st),
      jtag_idle_cycle(jtag_dr_exit2idle(
        jtag_shift(
          jtag_ir_exit2dr(jtag_shift_write(jtag_to_ir(st.self), ir, irlen)),
          dr, drlen)))),
    drlen)

(***************************************************************************)
(* SpecJtag: one FtdiJtag handle on a controller, its target in any TAP    *)
(* state when the handle is made, and the handle's operations called one   *)
(* after the other.  jtag is [self, tap, last]: last is the call that has  *)
(* just returned, with what it returned and the clocks the target saw      *)
(* during it, until the caller has taken the result.                       *)
(***************************************************************************)
TapStates ==
  {"TestLogicReset", "RunTestIdle", "SelectDR", "CaptureDR", "ShiftDR", "Exit1DR",
   "PauseDR", "Exit2DR", "UpdateDR", "SelectIR", "CaptureIR", "ShiftIR", "Exit1IR",
   "PauseIR", "Exit2IR", "UpdateIR"}

\* the bits the target shifts out of its data registers: IDCODEs and
\* bypass bits, then a constant tail
Streams ==
  {[prefix |-> <<>>, tail |-> 0], [prefix |-> <<>>, tail |-> 1],
   [prefix |-> Bits32(IdcodeA[2]), tail |-> 0],
   [prefix |-> <<0>> \o Bits32(IdcodeB[2]), tail |-> 1],
   [prefix |-> <<1, 0, 1>>, tail |-> 1]}

\* the registers shifted: data and the number of its bits to shift
JtagShifts ==
  {[data |-> <<1>>, len |-> 1], [data |-> <<21>>, len |-> 5],
   [data |-> <<165>>, len |-> 8], [data |-> <<90, 1>>, len |-> 9]}

\* the exchange of a call that fails, among its first n: <<0, "None">> for
\* none
JtagFails(n) == {<<0, "None">>} \cup ((1..n) \X {"bulk_out", "bulk_in"})

JtagInit ==
  /\ mtx = Unlock(set_bank([alloc_pins_unchecked(open("FT232H", "A"),
                                <<Lower(0), Lower(1), Lower(2), Lower(3)>>, "Jtag").m
                              EXCEPT !.lower.direction =
                                Or8(@, TCK_MASK + TDI_MASK + TMS_MASK)], "lower"))
  /\ handles = EmptyBag
  /\ result = <<"Ok">>
  /\ \E state \in TapStates, stream \in Streams :
       jtag = [self |-> [is_idle |-> FALSE, adaptive_clocking |-> FALSE],
               tap |-> [state |-> state, tms |-> 0, tdi |-> 0, drpos |-> 0,
                        stream |-> stream, log |-> <<>>],
               last |-> <<>>]
  /\ i2c = <<>>
  /\ spi = <<>>
  /\ swd = <<>>
  /\ usb = <<>>
  /\ outcome = <<>>
  /\ BuilderIdle
  /\ MutexIdle

\* the operation has returned: the guard is dropped
JtagReturn(run) ==
  /\ mtx' = Unlock(run.m)
  /\ jtag' = [self |-> run.self,
              tap |-> [run.tap EXCEPT !.log = <<>>],
              last |-> [call |-> run.call, res |-> run.res, value |-> run.value,
                        log |-> run.log, response |-> run.response,
                        exchanges |-> run.exchanges,
                        locks |-> run.locks, was_idle |-> jtag.self.is_idle,
                        from |-> jtag.tap.state]]
  /\ UNCHANGED <<i2c, spi, swd, usb, outcome, handles, result, bvars, mvars>>

JtagGotoIdle ==
  /\ jtag.last = <<>>
  /\ \E fail \in JtagFails(1) :
       \E call \in {[op |-> "goto_idle", fail |-> fail]} :
         \E run \in {JtagOk(goto_idle(JtagBegin(jtag.self, mtx, jtag.tap, call)), <<>>)} :
           JtagReturn(run)

JtagScanWith ==
  /\ jtag.last = <<>>
  /\ \E tdi \in BOOLEAN, fail \in JtagFails(2) :
       \E call \in {[op |-> "scan_with", tdi |-> tdi, fail |-> fail]} :
         \E run \in {FtdiJtag_scan_with(JtagBegin(jtag.self, mtx, jtag.tap, call), tdi)} :
           JtagReturn(run)

JtagWrite ==
  /\ jtag.last = <<>>
  /\ \E ir \in JtagShifts, dr \in JtagShifts, fail \in JtagFails(1) :
       \E call \in {[op |-> "write", ir |-> ir, dr |-> dr, fail |-> fail]} :
         \E run \in {FtdiJtag_write(JtagBegin(jtag.self, mtx, jtag.tap, call),
                                    ir.data, ir.len, dr.data, dr.len)} :
           JtagReturn(run)

JtagRead ==
  /\ jtag.last = <<>>
  /\ \E ir \in JtagShifts, drlen \in {s.len : s \in JtagShifts}, fail \in JtagFails(1) :
       \E call \in {[op |-> "read", ir |-> ir, dr |-> [len |-> drlen], fail |-> fail]} :
         \E run \in {FtdiJtag_read(JtagBegin(jtag.self, mtx, jtag.tap, call),
                                   ir.data, ir.len, drlen)} :
           JtagReturn(run)

JtagWriteRead ==
  /\ jtag.last = <<>>
  /\ \E ir \in JtagShifts, dr \in JtagShifts, fail \in JtagFails(1) :
       \E call \in {[op |-> "write_read", ir |-> ir, dr |-> dr, fail |-> fail]} :
         \E run \in {FtdiJtag_write_read(JtagBegin(jtag.self, mtx, jtag.tap, call),
                                         ir.data, ir.len, dr.data, dr.len)} :
           JtagReturn(run)

\* the caller has taken what the call returned
JtagTaken ==
  /\ jtag.last # <<>>
  /\ jtag' = [jtag EXCEPT !.last = <<>>]
  /\ UNCHANGED <<mtx, i2c, spi, swd, usb, outcome, handles, result, bvars, mvars>>

JtagNext ==
  \/ JtagTaken
  \/ JtagGotoIdle
  \/ JtagScanWith
  \/ JtagWrite
  \/ JtagRead
  \/ JtagWriteRead

SpecJtag == JtagInit /\ [][JtagNext]_vars

(***************************************************************************)
(* C28.  The clocks of the call that has just returned Ok, each with the   *)
(* TAP state it was taken in.                                              *)
(***************************************************************************)
\* the clocks of the data shifts (byte and bit mode) of the log
DataClocks(log) == SelectSeq(log, LAMBDA e : e.kind = "data")

\* the clocks that shift a register's bits: those of the data shifts and
\* those of the TMS shifts of one clock, which carry the last bit of a
\* register (the TMS patterns that walk the TAP have two clocks or more)
BitClocks(log) ==
  SelectSeq(log, LAMBDA e :
    \/ e.kind = "data"
    \/ Cardinality({k \in 1..Len(log) : log[k].op = e.op}) = 1)

\* the n bits clocked from the i-th of bits on are clocked in the shift
\* state s: all but the last with TMS low, the last with TMS high, which
\* leaves s
ShiftedIn(bits, i, s, n) ==
  /\ Len(bits) >= i + n - 1
  /\ \A k \in i..(i + n - 1) : bits[k].tap = s /\ bits[k].tms = (IF k = i + n - 1 THEN 1 ELSE 0)

\* the TAP states the clocks of the log were taken in, and the state left in
Walk(log, left) == [k \in 1..Len(log) |-> log[k].tap] \o <<left>>

\* the walk goes through the states of path one after the other somewhere
Passes(walk, path) ==
  \E k \in 0..(Len(walk) - Len(path)) : \A j \in 1..Len(path) : walk[k + j] = path[j]

JtagReturnedOk(ops) ==
  /\ jtag # <<>>
  /\ jtag.last # <<>>
  /\ jtag.last.call.op \in ops
  /\ jtag.last.res = "Ok"

\* C28: the Any-to-Idle sequence (TMS 1,1,1,1,1,0) ends in Run-Test/Idle from
\* every state; a read, write or write_read that returns Ok has clocked each
\* of its irlen IR bits while the TAP was in Shift-IR and each of its drlen
\* DR bits while it was in Shift-DR, the last bit of either leaving the shift
\* state, has gone from Exit1-IR to Shift-DR by Update-IR, Select-DR-Scan and
\* Capture-DR, and has left the TAP in Run-Test/Idle; a scan_with that
\* returns Ok has shifted only while the TAP was in Shift-DR and has left it
\* in Run-Test/Idle.
C28_TapWalks ==
  /\ JtagReturnedOk({"goto_idle"}) =>
       /\ [k \in 1..Len(jtag.last.log) |-> jtag.last.log[k].tms] = <<1, 1, 1, 1, 1, 0>>
       /\ jtag.tap.state = "RunTestIdle"
  /\ JtagReturnedOk({"read", "write", "write_read"}) =>
       /\ Len(BitClocks(jtag.last.log)) = jtag.last.call.ir.len + jtag.last.call.dr.len
       /\ ShiftedIn(BitClocks(jtag.last.log), 1, "ShiftIR", jtag.last.call.ir.len)
       /\ ShiftedIn(BitClocks(jtag.last.log), jtag.last.call.ir.len + 1, "ShiftDR",
                    jtag.last.call.dr.len)
       /\ Passes(Walk(jtag.last.log, jtag.tap.state),
                 <<"ShiftIR", "Exit1IR", "UpdateIR", "SelectDR", "CaptureDR", "ShiftDR">>)
       /\ jtag.tap.state = "RunTestIdle"
  /\ JtagReturnedOk({"scan_with"}) =>
       /\ DataClocks(jtag.last.log) # <<>>
       /\ \A k \in 1..Len(jtag.last.log) :
            jtag.last.log[k].kind = "data" => jtag.last.log[k].tap = "ShiftDR"
       /\ jtag.tap.state = "RunTestIdle"

\* the same of calls made while the handle's is_idle was right: false, or
\* true with the TAP in Run-Test/Idle
C28_TapWalksFromKnownState ==
  (jtag # <<>> /\ jtag.last # <<>>
   /\ (jtag.last.was_idle => jtag.last.from = "RunTestIdle"))
    => C28_TapWalks

\* a read from Pause-DR that returned its two bytes
C28_Witness ==
  /\ JtagReturnedOk({"read"})
  /\ jtag.last.from = "PauseDR"
  /\ ~jtag.last.was_idle
  /\ jtag.last.call.dr.len = 9
  /\ Len(jtag.last.value) = 2

(***************************************************************************)
(* C29.  The operations of the SPI, JTAG and SWD handles among Programs:   *)
(* SpiBus::write (one exchange), FtdiSwd::read (the request and ACK, then  *)
(* the data) and FtdiJtag::scan_with (the walk to Shift-DR and a round of  *)
(* the IDCODE loop under one guard, the exchange of goto_idle under        *)
(* another).                                                               *)
(***************************************************************************)
SpiJtagSwdPrograms ==
  { <<"lock", "exec", "unlock">>,
    <<"lock", "exec", "exec", "unlock">>,
    <<"lock", "exec", "exec", "unlock", "lock", "exec", "unlock">> }

\* the steps of the program prog that are step
StepsAt(prog, step) == {i \in 1..Len(prog) : prog[i] = step}

\* the thread t is between the first and the last exchange of its operation
BetweenExchanges(t) ==
  /\ threads[t].pc > 0
  /\ \E i \in StepsAt(threads[t].prog, "exec") : i < threads[t].pc
  /\ \E i \in StepsAt(threads[t].prog, "exec") : i >= threads[t].pc

\* C29: an SPI, JTAG or SWD operation takes the mutex once, and while a
\* thread is between the first and the last exchange of such an operation no
\* other thread has an exchange in flight.
C29_OneLockPerOperation ==
  \A t \in 1..MaxThreads :
    (threads[t].pc > 0 /\ threads[t].prog \in SpiJtagSwdPrograms) =>
      /\ Cardinality(StepsAt(threads[t].prog, "lock")) = 1
      /\ BetweenExchanges(t) =>
           \A i \in 1..Len(in_flight) : in_flight[i] = t

(***************************************************************************)
(* SpecTeardown: the handles of SpecPins, with a Drop during which the     *)
(* transport refuses an exchange.  A Drop::drop is the sequence of its     *)
(* steps under one guard: <<"exec">> is the                                *)
(* `lock.write_read(..).unwrap()` of impl Drop for FtdiI2c and             *)
(* <<"free_pin", pin>> a call of FtdiMpsse::free_pin, which clears the     *)
(* pin in the registry and then does `self.exec(cmd).unwrap()`.  An unwrap *)
(* of the Err of a refused exchange panics; the guard is dropped by the    *)
(* unwinding, which poisons the mutex, and the `self.mtx.lock().unwrap()`  *)
(* of every later operation panics in its turn.  A GPIO or SPI handle is   *)
(* dropped UsedPin by UsedPin, each with a Drop::drop of its own, which    *)
(* the unwinding of the first panic goes on to run: a panic there, while   *)
(* panicking, aborts the process.                                          *)
(***************************************************************************)
\* the registry part of free_pin, before its exchange
free_pin_registry(m, pin) ==
  [m EXCEPT ![pin[1]].pins[pin[2]] = "None",
            ![pin[1]].value = And8(@, Not8(mask(pin))),
            ![pin[1]].direction = And8(@, Not8(mask(pin)))]

\* the Drop::drop calls of the drop of the handle h, each the sequence of
\* its steps after `self.mtx.lock().unwrap()`
DropCalls(h) ==
  IF h.kind \in {"FtdiOutputPin", "FtdiInputPin", "FtdiSpi", "FtdiSpiDevice"}
  THEN [i \in 1..Len(h.pins) |-> <<<<"free_pin", h.pins[i]>>>>]
  ELSE <<(IF h.kind = "FtdiI2c" THEN <<<<"exec">>>> ELSE <<>>)
           \o [i \in 1..Len(h.pins) |-> <<"free_pin", h.pins[i]>>]>>

\* one step of a Drop::drop that holds the guard; td is [m, res, poisoned,
\* exchanges, fail], fail the exchange the transport refuses
drop_step(td, step) ==
  IF td.res # "Running" THEN td
  ELSE LET m1 == IF step[1] = "free_pin" THEN free_pin_registry(td.m, step[2]) ELSE td.m
           b == IF step[1] = "exec" THEN enable_3phase_data_clocking(NewBuilder, FALSE)
                ELSE IF step[2][1] = "lower"
                THEN set_gpio_lower(NewBuilder, m1.lower.value, m1.lower.direction)
                ELSE set_gpio_upper(NewBuilder, m1.upper.value, m1.upper.direction)
           refused == td.exchanges + 1 = td.fail
       IN [td EXCEPT !.m = try_exec(m1, b, refused),
                     !.exchanges = @ + 1,
                     !.res = IF refused THEN "Panic" ELSE @,
                     !.poisoned = @ \/ refused]

RECURSIVE drop_steps(_, _)
drop_steps(td, steps) ==
  IF steps = <<>> THEN td ELSE drop_steps(drop_step(td, Head(steps)), Tail(steps))

\* one Drop::drop: its lock().unwrap() panics on a poisoned mutex, and a
\* panic while another unwinds aborts
drop_call(td, steps) ==
  IF td.res = "Abort" THEN td
  ELSE IF td.poisoned
  THEN [td EXCEPT !.res = IF td.res = "Panic" THEN "Abort" ELSE "Panic"]
  ELSE IF td.res = "Panic" THEN td
  ELSE drop_steps(td, steps)

RECURSIVE drop_calls(_, _)
drop_calls(td, drops) ==
  IF drops = <<>> THEN td ELSE drop_calls(drop_call(td, Head(drops)), Tail(drops))

\* the drop of the handle h with the exchange fail refused
drop_refused(m, h, fail) ==
  drop_calls([m |-> m, res |-> "Running", poisoned |-> FALSE, exchanges |-> 0,
              fail |-> fail], DropCalls(h))

\* the number of exchanges of the drop of the handle h
RECURSIVE DropExchanges(_)
DropExchanges(drops) ==
  IF drops = <<>> THEN 0 ELSE Len(Head(drops)) + DropExchanges(Tail(drops))

\* the pin is as free_pin leaves it in the registry
Cleared(m, pin) ==
  /\ m[pin[1]].pins[pin[2]] = "None"
  /\ Bit(m[pin[1]].value, pin[2]) = 0
  /\ Bit(m[pin[1]].direction, pin[2]) = 0

TeardownInit == PinsInit

\* the operations of SpecPins, while the mutex is whole
TeardownOperation ==
  /\ outcome = <<>>
  /\ PinsNext

\* a handle is dropped and the transport refuses one exchange of its drop
TeardownDrop ==
  /\ outcome = <<>>
  /\ \E s \in BagToSet(handles) :
       \E fail \in 1..DropExchanges(DropCalls(s)) :
       \E td \in {drop_refused(mtx, s, fail)} :
         /\ mtx' = Unlock(td.m)
         /\ handles' = handles (-) SetToBag({s})
         /\ result' = <<IF td.res = "Running" THEN "Ok" ELSE td.res>>
         /\ outcome' = <<[op |-> "drop", handle |-> s, fail |-> fail,
                          res |-> IF td.res = "Running" THEN "Ok" ELSE td.res,
                          poisoned |-> td.poisoned,
                          cleared |-> \A i \in 1..Len(s.pins) : Cleared(td.m, s.pins[i])]>>
  /\ UNCHANGED <<i2c, spi, swd, jtag, usb, bvars, mvars>>

\* after a panic that did not abort, an operation of another handle:
\* FtdiOutputPin::set, whose lock().unwrap() panics on the poisoned mutex
TeardownUse ==
  /\ Len(outcome) = 1
  /\ outcome[1].res = "Panic"
  /\ \E s \in BagToSet(handles), state \in BOOLEAN :
       /\ s.kind = "FtdiOutputPin"
       /\ outcome' = Append(outcome, [op |-> "set", handle |-> s, state |-> state,
                                      res |-> IF outcome[1].poisoned THEN "Panic"
                                              ELSE "Ok"])
  /\ UNCHANGED <<pvars, i2c, spi, swd, jtag, usb, bvars, mvars>>

TeardownNext ==
  \/ TeardownOperation
  \/ TeardownDrop
  \/ TeardownUse

SpecTeardown == TeardownInit /\ [][TeardownNext]_vars

(***************************************************************************)
(* C30.                                                                    *)
(***************************************************************************)
\* C30: a drop during which an exchange fails does not panic; the slot and
\* the direction and value bits of each of the handle's pins are cleared in
\* the registry all the same, and the operations of the other handles go on
\* working.
C30_TeardownErrorsSwallowed ==
  \A i \in 1..Len(outcome) :
    /\ outcome[i].op = "drop" =>
         /\ outcome[i].res = "Ok"
         /\ outcome[i].cleared
    /\ outcome[i].op = "set" => outcome[i].res = "Ok"

(***************************************************************************)
(* C31: a fast transaction that meets no transport error makes exactly one *)
(* exchange, whose command stream holds the START, every address and data  *)
(* phase and the STOP, and puts exactly one START on the bus before the    *)
(* first address byte.                                                     *)
(***************************************************************************)
\* the START events that come before the first byte written to the bus
StartsBeforeAddress(events) ==
  LET written == {k \in 1..Len(events) : events[k][1] = "W"}
      first == IF written = {} THEN Len(events) + 1 ELSE Min(written)
  IN Cardinality({k \in 1..(first - 1) : events[k] = <<"S">>})

\* the bus as the command stream of the last exchange alone drives it
LastExchangeBus(run) ==
  Shape(BusOf(Decode(run.wire[Len(run.wire)].cmd),
              run.wire[Len(run.wire)].response).events)

C31_FastOneExchange ==
  (Fast /\ outcome[1].run.res # "Transport") =>
    /\ Len(outcome[1].run.wire) = 1
    /\ LastExchangeBus(outcome[1].run)
         = <<(<<"S">>)>> \o OnBus(outcome[1].call.address, outcome[1].call.operations, 1)
             \o <<(<<"P">>)>>
    /\ StartsBeforeAddress(outcome[1].bus.events) = 1

\* the part that holds: the last exchange of a fast transaction holds the
\* whole transaction, START to STOP
C31_LastExchangeWhole ==
  (Fast /\ outcome[1].run.res # "Transport") =>
    /\ Len(outcome[1].run.wire) = 2
    /\ LastExchangeBus(outcome[1].run)
         = <<(<<"S">>)>> \o OnBus(outcome[1].call.address, outcome[1].call.operations, 1)
             \o <<(<<"P">>)>>

(***************************************************************************)
(* The bus conditions as set-bank opcodes.  i2c_out is the one set-bank of *)
(* the lower byte that makes SDA an output, so the levels a transaction    *)
(* drives are those of the opcodes with bit 1 of the direction set; a      *)
(* sequence of them that no shift and no i2c_in interrupts is a run.       *)
(***************************************************************************)
\* <<SCL, SDA>> of an i2c_out, <<>> for a set-bank of the upper byte, which
\* interrupts nothing, and <<"-">> for every other opcode
LevelToken(op) ==
  IF op[1] = SetDataBitsLowbyte /\ Bit(op[3], 1) = 1 THEN <<Bit(op[2], 0), Bit(op[2], 1)>>
  ELSE IF op[1] = SetDataBitsHighbyte THEN <<>>
  ELSE <<"-">>

LevelTokens(ops) ==
  SelectSeq([i \in 1..Len(ops) |-> LevelToken(ops[i])], LAMBDA t : t # <<>>)

\* the runs of tokens, each <<a, b>>: the positions of its first and last level
LevelRuns(tokens) ==
  {r \in (1..Len(tokens)) \X (1..Len(tokens)) :
     /\ r[1] <= r[2]
     /\ \A k \in r[1]..r[2] : tokens[k] # <<"-">>
     /\ r[1] = 1 \/ tokens[r[1] - 1] = <<"-">>
     /\ r[2] = Len(tokens) \/ tokens[r[2] + 1] = <<"-">>}

Held(level, n) == [i \in 1..n |-> level]

StartLevels(n) == Held(<<1, 1>>, n) \o Held(<<1, 0>>, n) \o Held(<<0, 0>>, n)

StopLevels(n) == Held(<<0, 0>>, n) \o Held(<<1, 0>>, n) \o Held(<<1, 1>>, n)

RestartLevels(n) == Held(<<0, 1>>, n) \o StartLevels(n)

\* the lines that change level at opcode i
Changed(ops, i) == {l \in 1..2 : Levels(ops, i - 1)[l] # Levels(ops, i)[l]}

\* the conditions of a transaction with n opcodes per level: its first run
\* is the START, alone or with the STOP of a transaction without phases
\* right behind it; every later run is the single i2c_out(false, false) of a
\* data byte, a repeated START or the STOP; no opcode changes both lines
BusConditions(ops, n) ==
  LET tokens == LevelTokens(ops)
      runs == LevelRuns(tokens)
  IN /\ \A i \in 1..Len(ops) : Cardinality(Changed(ops, i)) <= 1
     /\ \A r \in runs :
          IF r[1] = 1
          THEN SubSeq(tokens, r[1], r[2]) \in {StartLevels(n), StartLevels(n) \o StopLevels(n)}
          ELSE SubSeq(tokens, r[1], r[2])
                 \in {<<(<<0, 0>>)>>, RestartLevels(n), StopLevels(n)}
     /\ tokens # <<>> /\ tokens[1] # <<"-">>

\* the repeated STARTs of a transaction: the runs that end a START sequence
\* and are not the first
RepeatedStarts(ops, n) ==
  LET tokens == LevelTokens(ops)
  IN {r \in LevelRuns(tokens) :
        /\ r[1] > 1
        /\ r[2] - r[1] + 1 >= 3 * n
        /\ SubSeq(tokens, r[2] - 3 * n + 1, r[2]) = StartLevels(n)}

(***************************************************************************)
(* C32: in serial and in fast mode the bus conditions are sequences of     *)
(* (SCL, SDA) levels, each held for start_stop_cmds set-bank opcodes:      *)
(* START (1,1), (1,0), (0,0); STOP (0,0), (1,0), (1,1); repeated START     *)
(* (0,1) and then START; and SCL and SDA never change in the same step.    *)
(***************************************************************************)
C32_BusConditions ==
  outcome # <<>> => BusConditions(WireOps(outcome[1].run.wire), i2c.start_stop_cmds)

\* the serial path alone
C32_SerialBusConditions ==
  Serial => BusConditions(WireOps(outcome[1].run.wire), i2c.start_stop_cmds)

\* a serial transaction with a repeated START after a read, one opcode per
\* level, that returns Ok
C32_SerialWitness ==
  /\ Serial
  /\ outcome[1].run.res = "Ok"
  /\ i2c.start_stop_cmds = 1
  /\ Len(outcome[1].call.operations) = 2
  /\ outcome[1].call.operations[1].kind = "Read"
  /\ Len(outcome[1].call.operations[1].buf) = 1
  /\ RepeatedStarts(WireOps(outcome[1].run.wire), 1) # {}

(***************************************************************************)
(* SpecJtagShift: one shift of JtagCmdBuilder (jtag_shift, jtag_shift_write *)
(* or jtag_shift_read) on an empty builder.  The buffer holds the          *)
(* bits_count bits and may hold more: bits_count ends in the last byte of  *)
(* the buffer, whose bits above the last one shifted are any.  calls       *)
(* records <<name, [data, len]>>.                                          *)
(***************************************************************************)
JtagBytes == {0, 1, 90, 255}

JtagBuffers == UNION {[1..n -> JtagBytes] : n \in 1..(MaxLen + 1)}

\* the numbers of bits shifted out of a buffer of n bytes: 1, 4, 7 or 8 of
\* its last byte
JtagBitCounts(n) == {8 * (n - 1) + k : k \in {1, 4, 7, 8}}

JtagShiftCall(b, name, data, bits_count) ==
  /\ calls = <<>>
  /\ cmd' = b.cmd
  /\ read_len' = b.read_len
  /\ calls' = <<<<name, [data |-> data, len |-> bits_count]>>>>
  /\ UNCHANGED <<tck_init_value, is_lsb, built, pvars, mvars, xvars>>

CallJtagShift ==
  \E data \in JtagBuffers : \E bits_count \in JtagBitCounts(Len(data)) :
    \E b \in {jtag_shift(Builder, data, bits_count)} :
      JtagShiftCall(b, "jtag_shift", data, bits_count)

CallJtagShiftWrite ==
  \E data \in JtagBuffers : \E bits_count \in JtagBitCounts(Len(data)) :
    \E b \in {jtag_shift_write(Builder, data, bits_count)} :
      JtagShiftCall(b, "jtag_shift_write", data, bits_count)

CallJtagShiftRead ==
  \E n \in 1..(MaxLen + 1) : \E bits_count \in JtagBitCounts(n) :
    \E b \in {jtag_shift_read(Builder, bits_count)} :
      JtagShiftCall(b, "jtag_shift_read", <<>>, bits_count)

JtagShiftNext ==
  \/ CallJtagShift
  \/ CallJtagShiftWrite
  \/ CallJtagShiftRead

SpecJtagShift == ShiftCmdInit /\ [][JtagShiftNext]_vars

\* bit k of the buffer, counting from the least significant bit of its
\* first byte
DataBit(data, k) == Bit(data[(k \div 8) + 1], k % 8)

JtagShifted == Len(calls) = 1 /\ calls[1][1] \in {"jtag_shift", "jtag_shift_write", "jtag_shift_read"}

\* the opcodes of a shift: floor((bit_len - 1) / 8) bytes in one byte-mode
\* opcode, (bit_len - 1) mod 8 bits in one bit-mode opcode, both least
\* significant bit first, and one TMS shift of one clock with TMS high;
\* bit_len clocks in all, and on a shift that writes the k-th clock carries
\* bit k - 1 of the buffer on TDI; tdi_of_last says what the TMS shift is
\* to carry
ShiftLayout(name, data, bit_len, ops, clocks, tdi_of_last) ==
  LET bytes == (bit_len - 1) \div 8
      bits == (bit_len - 1) % 8
      n == Len(ops)
      writes == name # "jtag_shift_read"
      reads == name # "jtag_shift_write"
  IN /\ n = (IF bytes > 0 THEN 1 ELSE 0) + (IF bits > 0 THEN 1 ELSE 0) + 1
     /\ bytes > 0 =>
          /\ ops[1][1] < 128 /\ Bit(ops[1][1], 6) = 0 /\ Bit(ops[1][1], 1) = 0
          /\ Bit(ops[1][1], 3) = 1
          /\ ByteCount(ops[1]) = bytes
     /\ bits > 0 =>
          /\ ops[n - 1][1] < 128 /\ Bit(ops[n - 1][1], 6) = 0 /\ Bit(ops[n - 1][1], 1) = 1
          /\ Bit(ops[n - 1][1], 3) = 1
          /\ ops[n - 1][2] + 1 = bits
     /\ \A i \in 1..n :
          /\ (Bit(ops[i][1], 4) = 1 <=> writes) \/ i = n
          /\ Bit(ops[i][1], 5) = 1 <=> reads
     /\ ops[n][1] < 128 /\ Bit(ops[n][1], 6) = 1
     /\ ops[n][2] = 0
     /\ Len(clocks) = bit_len
     /\ \A k \in 1..(bit_len - 1) :
          /\ clocks[k].kind = "data"
          /\ writes => clocks[k].tdi = DataBit(data, k - 1)
     /\ clocks[bit_len].kind = "tms"
     /\ clocks[bit_len].tms = 1
     /\ clocks[bit_len].tdi = tdi_of_last

(***************************************************************************)
(* C33: for every buffer and every bit_len >= 1 a JTAG shift emits         *)
(* floor((bit_len - 1) / 8) whole bytes in byte mode LSB-first, then       *)
(* (bit_len - 1) mod 8 bits in bit mode, then exactly one TMS-shift clock  *)
(* with TMS = 1 whose TDI level is bit (bit_len - 1) of the data, bit_len  *)
(* clocks in all.  (jtag_shift_read has no data; its TDI is low.)          *)
(***************************************************************************)
C33_ShiftLayout ==
  JtagShifted =>
    \E name \in {calls[1][1]}, data \in {calls[1][2].data}, bit_len \in {calls[1][2].len} :
      \A ops \in {Decode(cmd)} :
        ShiftLayout(name, data, bit_len, ops, ClocksFrom(ops, 1),
                    IF name = "jtag_shift_read" THEN 0 ELSE DataBit(data, bit_len - 1))

\* what the code emits: the TMS shift carries on TDI whether the last byte
\* shifted right by (bit_len - 1) mod 8 is 1, and with that the layout holds
C33_ShiftLayoutOfCode ==
  JtagShifted =>
    \E name \in {calls[1][1]}, data \in {calls[1][2].data}, bit_len \in {calls[1][2].len} :
      \A ops \in {Decode(cmd)} :
        ShiftLayout(name, data, bit_len, ops, ClocksFrom(ops, 1),
                    IF name # "jtag_shift_read"
                       /\ data[((bit_len - 1) \div 8) + 1] \div Pow2((bit_len - 1) % 8) = 1
                    THEN 1 ELSE 0)

\* twelve bits of <<0x5A, 0xFF>>: one byte, three bits and the last bit
C33_Reached ==
  /\ JtagShifted
  /\ calls[1][1] = "jtag_shift"
  /\ calls[1][2].data = <<90, 255>>
  /\ calls[1][2].len = 12
  /\ Len(Decode(cmd)) = 3

(***************************************************************************)
(* C34: for every drlen >= 1 a read or write_read that returns Ok returns  *)
(* exactly ceil(drlen / 8) bytes in which bit i (bit 0 the least           *)
(* significant bit of the first byte) is the TDO bit sampled on the i-th   *)
(* clock of the DR shift, for every i < drlen; the last of these clocks is *)
(* that of the TMS shift, whose bit the device answers in bit 7 of the     *)
(* last response byte and the call returns at position (drlen - 1) mod 8   *)
(* of the last byte.                                                       *)
(***************************************************************************)
C34_ReadReturnsSampledBits ==
  JtagReturnedOk({"read", "write_read"}) =>
    \E drlen \in {jtag.last.call.dr.len}, irlen \in {jtag.last.call.ir.len},
       value \in {jtag.last.value}, response \in {jtag.last.response} :
      \A bits \in {BitClocks(jtag.last.log)} :
        /\ Len(value) = (drlen + 7) \div 8
        /\ Len(bits) = irlen + drlen
        /\ \A i \in 0..(drlen - 1) : DataBit(value, i) = bits[irlen + i + 1].tdo
        /\ bits[irlen + drlen].kind = "tms"
        /\ Bit(response[Len(response)], 7) = bits[irlen + drlen].tdo
        /\ Bit(value[Len(value)], (drlen - 1) % 8) = Bit(response[Len(response)], 7)

\* five bits read from a register that shifts out 1, 0, 1, 1, 1
C34_Witness ==
  /\ JtagReturnedOk({"read"})
  /\ ~jtag.last.was_idle
  /\ jtag.last.call.dr.len = 5
  /\ jtag.last.response = <<208, 128>>
  /\ jtag.last.value = <<29>>

(***************************************************************************)
(* C35: the cached TAP state is trusted only when it is right: whenever    *)
(* is_idle is true at the start of an operation the TAP is in              *)
(* Run-Test/Idle, and after an FtdiJtag operation that returns an error    *)
(* is_idle is false, so that the next operation opens with Any-to-Idle.    *)
(***************************************************************************)
C35_CacheInvalidatedOnError ==
  (jtag # <<>>) =>
    /\ (jtag.last = <<>> /\ jtag.self.is_idle) => jtag.tap.state = "RunTestIdle"
    /\ (jtag.last # <<>> /\ jtag.last.was_idle) => jtag.last.from = "RunTestIdle"
    /\ (jtag.last # <<>> /\ jtag.last.res = "Transport") => ~jtag.self.is_idle
    /\ (jtag.last # <<>> /\ jtag.last.call.op \in {"read", "write", "write_read"}
        /\ jtag.last.from # "RunTestIdle" /\ jtag.last.log # <<>>)
       => [k \in 1..6 |-> jtag.last.log[k].tms] = <<1, 1, 1, 1, 1, 0>>

(***************************************************************************)
(* C36: a transaction of an FtdiSpiDevice makes one exchange.  Its command *)
(* begins with a set-bank of the lower byte that drives CS (lower pin 3)   *)
(* low, holds after it the shift opcode of every operation that has words  *)
(* in the order of the operations (a Read reads, a Write writes, a         *)
(* Transfer and a TransferInPlace do both, a DelayNs and an empty buffer   *)
(* have none), and ends with a set-bank of the lower byte that drives CS   *)
(* high, followed by SendImmediate.  Before and after a transaction the    *)
(* controller's stored value and the level on the device have CS high and  *)
(* driven.                                                                 *)
(***************************************************************************)
\* the words an operation shifts
SpiWords(op) == IF op.kind = "Read" THEN Len(op.read) ELSE Len(op.write)

\* the operations that shift words, in order
SpiShifting(operations) ==
  SelectSeq(operations, LAMBDA op : SpiWords(op) > 0)

\* a decoded opcode is the byte shift of the operation
SpiShiftOf(opcode, op) ==
  /\ opcode[1] < 128
  /\ Bit(opcode[1], 1) = 0
  /\ Bit(opcode[1], 5) = (IF op.kind = "Write" THEN 0 ELSE 1)
  /\ Bit(opcode[1], 4) = (IF op.kind = "Read" THEN 0 ELSE 1)
  /\ opcode[2] + 256 * opcode[3] + 1 = SpiWords(op)
  /\ op.kind # "Read" => SubSeq(opcode, 4, Len(opcode)) = op.write

\* a decoded opcode sets the lower byte with CS driven to the level
SpiChipSelect(opcode, level) ==
  /\ Len(opcode) = 3
  /\ opcode[1] = SetDataBitsLowbyte
  /\ Bit(opcode[2], 3) = level
  /\ Bit(opcode[3], 3) = 1

C36_TransactionFraming ==
  /\ Bit(mtx.lower.value, 3) = 1
  /\ Bit(mtx.lower.direction, 3) = 1
  /\ Bit(mtx.ft.lower[1], 3) = 1
  /\ Bit(mtx.ft.lower[2], 3) = 1
  /\ (outcome # <<>> /\ ~outcome[1].call.fail)
     => LET ops == Decode(outcome[1].run.cmd)
            shifting == SpiShifting(outcome[1].call.operations)
        IN /\ Len(ops) = Len(shifting) + 3
           /\ SpiChipSelect(ops[1], 0)
           /\ \A i \in 1..Len(shifting) : SpiShiftOf(ops[i + 1], shifting[i])
           /\ SpiChipSelect(ops[Len(ops) - 1], 1)
           /\ ops[Len(ops)] = <<SendImmediate>>
           /\ mtx.ft.lower = <<ops[Len(ops) - 1][2], ops[Len(ops) - 1][3]>>
  /\ (outcome # <<>> /\ outcome[1].call.fail) => outcome[1].run.cmd = <<>>

\* a Write of two words and a Read of one word in one transaction
C36_Witness ==
  /\ outcome # <<>>
  /\ ~outcome[1].call.fail
  /\ Len(outcome[1].call.operations) = 2
  /\ outcome[1].call.operations[1].kind = "Write"
  /\ Len(outcome[1].call.operations[1].write) = 2
  /\ outcome[1].call.operations[2].kind = "Read"
  /\ Len(outcome[1].call.operations[2].read) = 1
  /\ Len(Decode(outcome[1].run.cmd)) = 5

\* C36, between transactions: while an FtdiSpiDevice lives on a controller
\* shared with other handles, the controller's stored value and the level on
\* the device have CS (lower pin 3) high and driven
C36_ChipSelectIdleHigh ==
  (\E h \in BagToSet(handles) : h.kind = "FtdiSpiDevice")
  => /\ Bit(mtx.lower.value, 3) = 1
     /\ Bit(mtx.lower.direction, 3) = 1
     /\ Bit(mtx.ft.lower[1], 3) = 1
     /\ Bit(mtx.ft.lower[2], 3) = 1

(***************************************************************************)
(* FtdiSwd::enable and the sequences of SwdCmdBuilder it sends.            *)
(***************************************************************************)
\* const ONES: &[u8] = &[0xff; 7]
ONES == [k \in 1..7 |-> 255]

\* u16::to_le_bytes
to_le_bytes16(value) == <<value % 256, value \div 256>>

\* SwdCmdBuilder::swd_line_reset: ONES, then two bits of ZEOS
swd_line_reset(b) ==
  shift_bits_out(shift_bytes_out(swd_out(b), FALSE, TRUE, ONES), FALSE, TRUE, 0, 2)

\* swd_enable with the switch code sent high byte first
swd_enable_be(b) ==
  swd_line_reset(
    shift_bytes_out(shift_bytes_out(swd_out(b), FALSE, TRUE, ONES),
                    FALSE, TRUE, <<59294 \div 256, 59294 % 256>>))

\* SwdCmdBuilder::swd_enable: SEQUENCE is 0xE79E_u16.to_le_bytes()
swd_enable(b) ==
  swd_line_reset(
    shift_bytes_out(shift_bytes_out(swd_out(b), FALSE, TRUE, ONES),
                    FALSE, TRUE, to_le_bytes16(59294)))

\* FtdiSwd::enable
swd_enable_call(self, lock, call) ==
  returned(swd_write_read(SwdBegin(lock), call,
                          swd_enable(SwdCmdBuilder(lock, self.direction_pin))),
           "Ok")

\* the calls of enable: the transport takes the exchange or refuses it
SwdEnables ==
  {[op |-> "enable", target |-> <<>>, fail |-> f] : f \in 0..1}

\* FtdiSwd::enable
SwdEnable == \E call \in SwdEnables : SwdReturn(call, swd_enable_call(swd, mtx, call))

SwdEnableNext ==
  \/ SwdNext
  \/ SwdEnable

(***************************************************************************)
(* SpecSwdEnable: the FtdiSwd of SpecSwd, on which enable may be the call  *)
(* made instead of a read or a write.                                      *)
(***************************************************************************)
SpecSwdEnable == SwdInit /\ [][SwdEnableNext]_vars

(***************************************************************************)
(* C37: an enable that meets no transport error makes one exchange, in     *)
(* which the device drives SWDIO on every clock: 56 ones, then the 16 bits *)
(* of 0x79E7 from bit 15 down to bit 0 (the command bytes are 0x9E, 0xE7,  *)
(* shifted least significant bit first), then 56 ones and 2 zeros, and no  *)
(* clock more.                                                             *)
(***************************************************************************)
C37_EnableSequence ==
  (outcome # <<>> /\ outcome[1].call.op = "enable" /\ outcome[1].run.res = "Ok")
  => LET run == outcome[1].run
         ev == SwdWire(run.wire)
         shifts == SelectSeq(Decode(run.wire[1].cmd), LAMBDA op : op[1] < 128)
     IN /\ Len(run.wire) = 1
        /\ Len(ev) = 56 + 16 + 56 + 2
        /\ \A k \in 1..56 : ev[k] = <<"w", 1>>
        /\ \A k \in 1..16 : ev[56 + k] = <<"w", Bit(31207, 16 - k)>>
        /\ \A k \in 1..56 : ev[72 + k] = <<"w", 1>>
        /\ \A k \in 1..2 : ev[128 + k] = <<"w", 0>>
        /\ SubSeq(shifts[2], 4, 5) = <<158, 231>>
        /\ Bit(shifts[2][1], 3) = 1

\* an enable through a direction pin on the upper byte
C37_Witness ==
  /\ outcome # <<>>
  /\ outcome[1].call.op = "enable"
  /\ outcome[1].run.res = "Ok"
  /\ swd.direction_pin = <<Upper(0)>>
  /\ Len(SwdWire(outcome[1].run.wire)) = 130

(***************************************************************************)
(* C38: a constructor of an SPI object or of a GPIO pin handle that fails  *)
(* because a pin it needs is in use leaves the registry (usage, direction  *)
(* and value of every pin of both bytes) as it was before the call, so the *)
(* pins it had taken are released and the pins of other owners are         *)
(* untouched, and it leaves no handle.  Only these constructors return the *)
(* error PinInUsed.                                                        *)
(***************************************************************************)
C38_FailedConstructorRestores ==
  [][result'[1] = "PinInUsed"
     => /\ mtx'.lower = mtx.lower
        /\ mtx'.upper = mtx.upper
        /\ handles' = handles]_vars

(***************************************************************************)
(* SpecScanLoop: one call of FtdiJtag::scan_with taken round by round.     *)
(* jtag is [pc, run]: run the run of the call, pc "call" before the first  *)
(* exchange, "loop" at the head of 'outer: loop, "returned" after the      *)
(* return.  The target shifts out MaxTailOffset bits or fewer of a pattern *)
(* and a constant level after them; the last bit of the pattern differs    *)
(* from the level, so the constant tail begins right after it.  A thread   *)
(* that is in the call goes on running, and every exchange returns.        *)
(***************************************************************************)
\* the longest pattern before the constant tail
MaxTailOffset == 40

\* the k-th bit of a pattern: the bits of 0x3BA0_0477 over and over, bypass
\* bits with a one at every third place, or ones
PatternBit(pattern, k) ==
  IF pattern = "idcodes" THEN Bits32(IdcodeA[2])[((k - 1) % ID_LEN) + 1]
  ELSE IF pattern = "bypasses" THEN (IF k % 3 = 0 THEN 1 ELSE 0)
  ELSE 1

ScanStreams ==
  {[prefix |-> [k \in 1..offset |->
                  IF k = offset THEN 1 - level ELSE PatternBit(pattern, k)],
    tail |-> level] :
     offset \in 0..MaxTailOffset, level \in {0, 1},
     pattern \in {"idcodes", "bypasses", "ones"}}

\* the body of 'outer: loop up to the end of `for tdo_val in tdos`
scan_round(st, tdi) ==
  Then(JtagExchange(st, shift_bytes(NewBuilder, FALSE, TRUE, tdi)),
       LAMBDA s :
         IF s.res # "Running" THEN s
         ELSE [s EXCEPT !.scan = scan_bits(s.scan, Tdos(s.response), 1)])

ScanInit ==
  /\ mtx = Unlock(set_bank([alloc_pins_unchecked(open("FT232H", "A"),
                                <<Lower(0), Lower(1), Lower(2), Lower(3)>>, "Jtag").m
                              EXCEPT !.lower.direction =
                                Or8(@, TCK_MASK + TDI_MASK + TMS_MASK)], "lower"))
  /\ handles = EmptyBag
  /\ result = <<"Ok">>
  /\ \E state \in {"TestLogicReset", "ShiftDR", "PauseIR"}, stream \in ScanStreams,
        tdi \in BOOLEAN, fail \in JtagFails(3) :
       jtag = [pc |-> "call",
               run |-> JtagBegin([is_idle |-> FALSE, adaptive_clocking |-> FALSE], mtx,
                                 [state |-> state, tms |-> 0, tdi |-> 0, drpos |-> 0,
                                  stream |-> stream, log |-> <<>>],
                                 [op |-> "scan_with", tdi |-> tdi, fail |-> fail])]
  /\ i2c = <<>>
  /\ spi = <<>>
  /\ swd = <<>>
  /\ usb = <<>>
  /\ outcome = <<>>
  /\ BuilderIdle
  /\ MutexIdle

\* scan_with up to the loop: the lock and the walk to Shift-DR
ScanEnter ==
  /\ jtag.pc = "call"
  /\ \E run \in {JtagExchange(JtagLock(jtag.run),
                                jtag_idle2dr(jtag_any2idle(NewBuilder)))} :
       jtag' = [pc |-> "loop", run |-> run]
  /\ UNCHANGED <<mtx, i2c, spi, swd, usb, outcome, handles, result, bvars, mvars>>

\* one round of 'outer: loop
ScanRound ==
  /\ jtag.pc = "loop"
  /\ jtag.run.res = "Running"
  /\ ~jtag.run.scan.done
  /\ jtag.run.exchanges <= MaxScanRounds
  /\ \E run \in {scan_round(jtag.run, IF jtag.run.call.tdi THEN <<255, 255, 255, 255>>
                                          ELSE <<0, 0, 0, 0>>)} :
       jtag' = [jtag EXCEPT !.run = run]
  /\ UNCHANGED <<mtx, i2c, spi, swd, usb, outcome, handles, result, bvars, mvars>>

\* the `?` of a failed exchange, or break 'outer, drop(lock), goto_idle and
\* Ok(idcodes)
ScanLeave ==
  /\ jtag.pc = "loop"
  /\ jtag.run.res # "Running" \/ jtag.run.scan.done
  /\ \E run \in {IF jtag.run.res = "Running"
                  THEN JtagOk(goto_idle(jtag.run), jtag.run.scan.idcodes)
                  ELSE jtag.run} :
       jtag' = [pc |-> "returned", run |-> run]
  /\ mtx' = Unlock(jtag.run.m)
  /\ UNCHANGED <<i2c, spi, swd, usb, outcome, handles, result, bvars, mvars>>

ScanNext ==
  \/ ScanEnter
  \/ ScanRound
  \/ ScanLeave

\* no step of the call is possible: it has returned, or the loop has run
\* MaxScanRounds rounds without a break
ScanStopped ==
  \/ jtag.pc = "returned"
  \/ /\ jtag.pc = "loop"
     /\ jtag.run.res = "Running"
     /\ ~jtag.run.scan.done
     /\ jtag.run.exchanges > MaxScanRounds

\* WF_vars(ScanNext), with ENABLED <<ScanNext>>_vars written as ~ScanStopped
\* and <<ScanNext>>_vars as a step that changes vars, which every step of
\* the call does
ScanFair == []<>ScanStopped \/ []<><<TRUE>>_vars

SpecScanLoop == ScanInit /\ [][ScanNext]_vars /\ ScanFair

(***************************************************************************)
(* C40: scan_with returns for every TDO stream that is constant from some  *)
(* bit on.  When it returns Ok the loop was left on 32 consecutive bypass  *)
(* bits or on a 32-bit word of ones, in a round that began fewer than 63   *)
(* bits after the constant tail did, whatever the number of bits before    *)
(* the tail, and the TAP is in Run-Test/Idle.                              *)
(***************************************************************************)
C40_ScanTerminates ==
  /\ <>(jtag.pc = "returned")
  /\ [](jtag.pc = "returned" /\ jtag.run.res = "Ok"
        => /\ \/ jtag.run.scan.consecutive_zeros = ID_LEN
              \/ /\ jtag.run.scan.bit_count = ID_LEN
                 /\ \A k \in 1..ID_LEN : jtag.run.scan.current_id[k] = 1
           /\ ID_LEN * (jtag.run.exchanges - 3)
                < Len(jtag.run.tap.stream.prefix) + 63
           /\ jtag.run.tap.state = "RunTestIdle")

\* the tail of ones begins at bit 38, in the middle of a word: the scan
\* returns after three rounds
C40_Witness ==
  /\ jtag.pc = "returned"
  /\ jtag.run.res = "Ok"
  /\ Len(jtag.run.tap.stream.prefix) = 37
  /\ jtag.run.tap.stream.tail = 1
  /\ jtag.run.exchanges = 5

(***************************************************************************)
(* SpecLock: threads run constructors, operations and destructors of       *)
(* handles that share one controller, each taken as the sequence of its    *)
(* mtx.lock() calls, its exchanges through the guard and the drops of its  *)
(* guards, in the order the code and the drop order of its locals give     *)
(* (locals are dropped in reverse order of declaration, an inner block's   *)
(* before the enclosing one's).  Whether an exchange returns Ok or Err     *)
(* changes the path taken, not the steps of a path.                        *)
(***************************************************************************)
\* a critical section with n exchanges
Locked(n) == <<"lock">> \o [k \in 1..n |-> "exec"] \o <<"unlock">>

\* UsedPin::new: the guard lives in the inner block around alloc_pin
UsedPin_new == Locked(0)

\* impl Drop for UsedPin: free_pin sends the set-bank
UsedPin_drop == Locked(1)

\* FtdiOutputPin::set, FtdiInputPin::get, the operations of the SPI buses
FtdiOutputPin_set == Locked(1)

\* FtdiOutputPin::new and FtdiInputPin::new returning Ok
FtdiOutputPin_new == UsedPin_new \o Locked(1)

\* the failing constructor with the guard alive while `this` is dropped
FtdiOutputPin_new_failed_guard_held ==
  UsedPin_new \o <<"lock", "exec">> \o UsedPin_drop \o <<"unlock">>

\* FtdiOutputPin::new when `lock.exec(cmd)?` returns early: the guard of the
\* inner block is dropped, then `this`, whose UsedPin locks in its Drop
FtdiOutputPin_new_failed ==
  UsedPin_new \o Locked(1) \o UsedPin_drop

\* FtdiInputPin::new when `lock.exec(cmd)?` returns early: `lock` is declared
\* after `this` and dropped before it
FtdiInputPin_new_failed == UsedPin_new \o Locked(1) \o UsedPin_drop

\* FtdiSpi::new when the second pin is in use: the UsedPin of the first is
\* dropped
FtdiSpi_new_in_use == UsedPin_new \o UsedPin_new \o UsedPin_drop

\* impl Drop for FtdiJtag with adaptive clocking on: adaptive_clock(false)
\* (free_pin and write_read under its own guard) has returned before the
\* Drop takes the mutex for its four free_pin
FtdiJtag_drop == Locked(2) \o Locked(4)

\* FtdiJtag::scan_with: the walk to Shift-DR and a round of the loop, then
\* drop(lock) and goto_idle
FtdiJtag_scan_with_steps == <<"lock", "exec", "exec", "unlock">> \o Locked(1)

HandlerPrograms ==
  {FtdiOutputPin_set, FtdiOutputPin_new, FtdiOutputPin_new_failed,
   FtdiInputPin_new_failed, FtdiSpi_new_in_use,
   FtdiJtag_drop, FtdiJtag_scan_with_steps}

\* a thread calls a constructor, an operation or a destructor
CallHandler ==
  \E t \in 1..MaxThreads, prog \in HandlerPrograms :
    /\ threads[t].pc = 0
    /\ threads' = [threads EXCEPT ![t] = [prog |-> prog, pc |-> 1]]
    /\ UNCHANGED <<guard, in_flight, reader, bvars, pvars, xvars>>

\* mtx.lock().unwrap() of the thread t
HandlerLock(t) ==
  /\ AtStep(t, "lock")
  /\ try_lock(guard)
  /\ guard' = t
  /\ Advance(t)
  /\ UNCHANGED <<in_flight, reader>>

\* an exchange of the thread t is made and returns
HandlerExec(t) ==
  /\ AtStep(t, "exec")
  /\ Advance(t)
  /\ UNCHANGED <<guard, in_flight, reader>>

\* a guard of the thread t is dropped
HandlerRelease(t) ==
  /\ AtStep(t, "unlock")
  /\ guard' = IF guard = t THEN 0 ELSE guard
  /\ Advance(t)
  /\ UNCHANGED <<in_flight, reader>>

\* a step of the thread t that waits for nothing
HandlerRun(t) ==
  \/ HandlerExec(t)
  \/ HandlerRelease(t)

LockNext ==
  \/ CallHandler
  \/ \E t \in 1..MaxThreads : HandlerLock(t)
  \/ \E t \in 1..MaxThreads : HandlerRun(t)

\* a thread inside a handler goes on running and every exchange returns
\* (weak fairness of its steps); a thread blocked in lock() gets the mutex
\* if it is free again and again (strong fairness of its lock())
SpecLock ==
  /\ MutexInit
  /\ [][LockNext]_vars
  /\ \A t \in 1..MaxThreads : WF_vars(HandlerRun(t)) /\ SF_vars(HandlerLock(t))

====
